---- MODULE Spec2Model ----
(***************************************************************************)
(* Mini-React: the two-phase reconciler (reconcile / commitRoot), the hook *)
(* runtime (useState / useEffect), the batching scheduler and the root     *)
(* controller, modelled over an explicit heap of VNodes, host (DOM) nodes  *)
(* and hook objects.                                                       *)
(***************************************************************************)
EXTENDS Integers, Sequences, FiniteSets, TLC

VARIABLES
  vnodes,            \* heap of VNode objects (index = identity)
  domNodes,          \* heap of host nodes; node 1 is the root container
  hookArrays,        \* heap of __hooks arrays (sequences of hook ids)
  hookObjs,          \* heap of hook objects
  pendingEffects,    \* reconciler.js: let pendingEffects = []
  dirtyComponents,   \* hooks.js: const dirtyComponents = new Set()
  flushScheduled,    \* hooks.js: let flushScheduled = false
  currentComponent,  \* hooks.js: let currentComponent = null  (0 = null)
  hookIndex,         \* hooks.js: let hookIndex = 0
  microtasks,        \* the host's microtask queue (queueMicrotask)
  currentVNode,      \* root.currentVNode (0 = null)
  setters,           \* setState closures handed out to the application
  log,               \* history of observable calls
  lastOp,            \* the last operation performed and its snapshot
  turn,              \* the external calls of the current synchronous turn
  phase,             \* "idle" | "reconciled" | "draining"
  ops,               \* number of external calls made so far
  rootReg            \* root.js: the roots WeakMap, the root objects, the containers

vars == <<vnodes, domNodes, hookArrays, hookObjs, pendingEffects,
          dirtyComponents, flushScheduled, currentComponent, hookIndex,
          microtasks, currentVNode, setters, log, lastOp, turn, phase, ops,
          rootReg>>

\* ---- bounds -------------------------------------------------------------
MaxOps == 4
MaxTurnUpdates == 3
MaxDiffOps == 2
MaxFxOps == 3
MaxCtxOps == 3
MaxTreeOps == 3
MaxHookOps == 4
MaxAbortOps == 4
MaxCommitOps == 3
MaxRootOps == 3
MaxRootCalls == 3
MaxNestOps == 3
MaxReenterOps == 3
MaxDropOps == 4
MaxHookObjs == 8

\* ---- constants of the program -------------------------------------------
TEXT_ELEMENT == "TEXT_ELEMENT"
PLACEMENT == "PLACEMENT"
DELETION == "DELETION"
REPLACE == "REPLACE"
UPDATE == "UPDATE"
REORDER == "REORDER"

Container == 1

\* ---- generic helpers -----------------------------------------------------
SeqRemove(seq, x) == SelectSeq(seq, LAMBDA y : y /= x)

InsertAt(seq, i, x) == SubSeq(seq, 1, i - 1) \o <<x>> \o SubSeq(seq, i, Len(seq))

RECURSIVE IndexOf(_, _, _)
IndexOf(seq, x, i) ==
  IF i > Len(seq) THEN 0
  ELSE IF seq[i] = x THEN i ELSE IndexOf(seq, x, i + 1)

Range(seq) == {seq[i] : i \in 1..Len(seq)}

NoProps == [k \in {} |-> 0]

\* ---- VNode descriptions (what createElement is called with) ---------------
TextD(v) == [type |-> TEXT_ELEMENT, key |-> 0, props |-> NoProps,
             nodeValue |-> v, children |-> <<>>]

HostD(tag, key, props, children) ==
  [type |-> tag, key |-> key, props |-> props, nodeValue |-> 0,
   children |-> children]

CompD(fn, key, props) ==
  [type |-> fn, key |-> key, props |-> props, nodeValue |-> 0,
   children |-> <<>>]

\* ---- the machine state threaded through the synchronous code --------------
Machine ==
  [vn |-> vnodes, dom |-> domNodes, ha |-> hookArrays, ho |-> hookObjs,
   pendingEffects |-> pendingEffects, dirtyComponents |-> dirtyComponents,
   flushScheduled |-> flushScheduled, currentComponent |-> currentComponent,
   hookIndex |-> hookIndex, microtasks |-> microtasks, setters |-> setters,
   log |-> log, err |-> "", ret |-> 0]

Store(m) ==
  /\ vnodes' = m.vn
  /\ domNodes' = m.dom
  /\ hookArrays' = m.ha
  /\ hookObjs' = m.ho
  /\ pendingEffects' = m.pendingEffects
  /\ dirtyComponents' = m.dirtyComponents
  /\ flushScheduled' = m.flushScheduled
  /\ currentComponent' = m.currentComponent
  /\ hookIndex' = m.hookIndex
  /\ microtasks' = m.microtasks
  /\ setters' = m.setters
  /\ log' = m.log

Ok(m) == m.err = ""

Throw(m, e) == IF Ok(m) THEN [m EXCEPT !.err = e] ELSE m

Logged(m, ev) == [m EXCEPT !.log = Append(@, ev)]

\* Statement sequencing: the rest K of a function body runs on the machine
\* state v that the statement before it produced.
Bind(v, K(_)) == K(v)

\* ---- createElement: allocate the VNode objects of a description ----------
NewVNode(d, kids) ==
  [type |-> d.type, key |-> d.key, props |-> d.props,
   nodeValue |-> d.nodeValue, children |-> kids,
   dom |-> 0, hooks |-> 0, childVNode |-> 0, parentDom |-> 0,
   expectedHookCount |-> -1]

RECURSIVE createElement(_, _)
RECURSIVE createChildren(_, _, _, _)
createChildren(m, ds, i, acc) ==
  IF i > Len(ds) THEN [m EXCEPT !.ret = acc]
  ELSE Bind(createElement(m, ds[i]), LAMBDA m1 :
         createChildren(m1, ds, i + 1, Append(acc, m1.ret)))

createElement(m, d) ==
  Bind(createChildren(m, d.children, 1, <<>>), LAMBDA m1 :
    [m1 EXCEPT !.vn = Append(@, NewVNode(d, m1.ret)), !.ret = Len(m1.vn) + 1])

\* ---- host adapter (DOM) ----------------------------------------------------
AttrNames == {"id", "title"}

NewDomNode(tag, text) ==
  [tag |-> tag, nodeValue |-> text, attrs |-> [k \in AttrNames |-> 0],
   childNodes |-> <<>>, parentNode |-> 0]

Detach(dom, c) ==
  LET p == dom[c].parentNode
  IN IF p = 0 THEN dom
     ELSE [dom EXCEPT ![p].childNodes = SeqRemove(@, c), ![c].parentNode = 0]

appendChild(m, p, c) ==
  IF ~Ok(m) THEN m
  ELSE IF c = 0 \/ p = 0 THEN Throw(m, "TypeError")
  ELSE LET d1 == Detach(m.dom, c)
       IN [m EXCEPT !.dom = [d1 EXCEPT ![p].childNodes = Append(@, c),
                                       ![c].parentNode = p]]

insertBefore(m, p, c, ref) ==
  IF ~Ok(m) THEN m
  ELSE IF ref = 0 THEN appendChild(m, p, c)
  ELSE IF c = 0 THEN Throw(m, "TypeError")
  ELSE IF m.dom[ref].parentNode /= p THEN Throw(m, "NotFoundError")
  ELSE LET d1 == Detach(m.dom, c)
           i == IndexOf(d1[p].childNodes, ref, 1)
       IN [m EXCEPT !.dom = [d1 EXCEPT ![p].childNodes = InsertAt(@, i, c),
                                       ![c].parentNode = p]]

removeChild(m, p, c) ==
  IF ~Ok(m) THEN m
  ELSE IF c = 0 \/ p = 0 THEN Throw(m, "TypeError")
  ELSE IF m.dom[c].parentNode /= p THEN Throw(m, "NotFoundError")
  ELSE [m EXCEPT !.dom = Detach(@, c)]

replaceChild(m, p, new, old) ==
  IF ~Ok(m) THEN m
  ELSE IF new = 0 \/ old = 0 \/ p = 0 THEN Throw(m, "TypeError")
  ELSE IF m.dom[old].parentNode /= p THEN Throw(m, "NotFoundError")
  ELSE IF new = old THEN m
  ELSE LET d1 == Detach(m.dom, new)
           i == IndexOf(d1[p].childNodes, old, 1)
       IN [m EXCEPT !.dom = [d1 EXCEPT
              ![p].childNodes = [@ EXCEPT ![i] = new],
              ![new].parentNode = p,
              ![old].parentNode = 0]]

\* render.js: updateProps(dom, oldProps, newProps)
updateProps(m, d, oldProps, newProps) ==
  IF ~Ok(m) THEN m
  ELSE IF d = 0 THEN Throw(m, "TypeError")
  ELSE [m EXCEPT !.dom[d].attrs =
          [k \in AttrNames |->
             IF k \in DOMAIN newProps
             THEN IF k \in DOMAIN oldProps /\ oldProps[k] = newProps[k]
                  THEN @[k] ELSE newProps[k]
             ELSE IF k \in DOMAIN oldProps THEN 0 ELSE @[k]]]

\* render.js: createDom(vnode) -- the new host node is returned in m.ret
createDom(m, v) ==
  LET vnode == m.vn[v]
      id == Len(m.dom) + 1
  IN IF vnode.type = TEXT_ELEMENT
     THEN [m EXCEPT !.dom = Append(@, NewDomNode("#text", vnode.nodeValue)),
                    !.ret = id]
     ELSE LET m1 == [m EXCEPT !.dom = Append(@, NewDomNode(vnode.type, 0))]
          IN [updateProps(m1, id, NoProps, vnode.props) EXCEPT !.ret = id]

\* ---- component.js ----------------------------------------------------------
ComponentFns ==
  {"Counter", "Timer", "Outer", "Watcher", "Cond", "Bouncer", "Host", "Child",
   "Parent", "Kid", "Tally", "RefBox", "Sloppy", "Flip", "Wrap"}

isComponent(m, v) == v /= 0 /\ m.vn[v].type \in ComponentFns

RECURSIVE getComponentDom(_, _)
getComponentDom(m, v) ==
  IF v = 0 THEN 0
  ELSE IF m.vn[v].dom /= 0 THEN m.vn[v].dom
  ELSE IF m.vn[v].childVNode /= 0 THEN getComponentDom(m, m.vn[v].childVNode)
  ELSE 0

\* ---- hooks.js: hook context ------------------------------------------------
setCurrentComponent(m, c) ==
  IF ~Ok(m) THEN m
  ELSE LET m1 == [m EXCEPT !.currentComponent = c, !.hookIndex = 0]
       IN IF m1.vn[c].hooks = 0
          THEN [m1 EXCEPT !.ha = Append(@, <<>>),
                          !.vn[c].hooks = Len(m1.ha) + 1]
          ELSE m1

\* Runs in a finally block: it executes whether or not the component threw.
clearCurrentComponent(m) ==
  LET c == m.currentComponent
  IN IF m.vn[c].expectedHookCount = -1
     THEN [m EXCEPT !.vn[c].expectedHookCount = m.hookIndex,
                    !.currentComponent = 0]
     ELSE IF m.vn[c].expectedHookCount /= m.hookIndex
     THEN [m EXCEPT !.err = "HookOrderError"]
     ELSE [m EXCEPT !.currentComponent = 0]

\* Mutant: the check is missing, so the hook goes on to read
\* currentComponent.__hooks of null.
assertHookContextMissing(m) ==
  IF Ok(m) /\ m.currentComponent = 0 THEN Throw(m, "TypeError") ELSE m

assertHookContext(m) ==
  IF Ok(m) /\ m.currentComponent = 0 THEN Throw(m, "HookContextError") ELSE m

\* ---- the host's queueMicrotask ----------------------------------------------
\* Mutant: the task is put at the front of the queue.
queueMicrotaskFirst(m, task) == [m EXCEPT !.microtasks = <<task>> \o @]

queueMicrotask(m, task) == [m EXCEPT !.microtasks = Append(@, task)]

\* ---- hooks.js: scheduler ---------------------------------------------------
\* Mutant: a flush is queued on every call.
scheduleRerenderAlways(m, c) ==
  queueMicrotask([m EXCEPT !.dirtyComponents =
                     IF c \in Range(@) THEN @ ELSE Append(@, c),
                            !.flushScheduled = TRUE],
                 [t |-> "flushUpdates"])

scheduleRerender(m, c) ==
  LET m1 == [m EXCEPT !.dirtyComponents =
                 IF c \in Range(@) THEN @ ELSE Append(@, c)]
  IN IF m1.flushScheduled THEN m1
     ELSE queueMicrotask([m1 EXCEPT !.flushScheduled = TRUE],
                         [t |-> "flushUpdates"])

\* ---- hooks.js: useState ----------------------------------------------------
basicStateReducer(state, action) ==
  IF action.fn = "inc" THEN state + 1 ELSE action.v

\* Mutant: only the last queued action is applied.
DrainQueueLast(state, queue, i) ==
  IF queue = <<>> THEN state ELSE basicStateReducer(state, queue[Len(queue)])

RECURSIVE DrainQueue(_, _, _)
DrainQueue(state, queue, i) ==
  IF i > Len(queue) THEN state
  ELSE DrainQueue(basicStateReducer(state, queue[i]), queue, i + 1)

\* What a callback (effect body or cleanup) does besides being recorded: a call
\* of a setState closure with an action, or nothing (comp = 0).
NoCall == [comp |-> 0, hook |-> 0, action |-> [fn |-> "set", v |-> 0]]

NewStateHook(init) ==
  [tag |-> "state", state |-> init, queue |-> <<>>,
   deps |-> [def |-> FALSE, v |-> <<>>], cleanup |-> 0, cleanupCall |-> NoCall]

\* cleanup is the handle of the stored cleanup function (0 = undefined) and
\* cleanupCall what that function does when invoked.
NewEffectHook(deps, cleanup, cleanupCall) ==
  [tag |-> "effect", state |-> 0, queue |-> <<>>,
   deps |-> deps, cleanup |-> cleanup, cleanupCall |-> cleanupCall]

\* { tag: 'ref', current: initialValue }
NewRefHook(init) ==
  [tag |-> "ref", state |-> init, queue |-> <<>>,
   deps |-> [def |-> FALSE, v |-> <<>>], cleanup |-> 0, cleanupCall |-> NoCall]

\* The hook object stored at slot idx of the current component (0 = none).
OldHook(m, idx) ==
  LET arr == m.ha[m.vn[m.currentComponent].hooks]
  IN IF idx <= Len(arr) THEN arr[idx] ELSE 0

SetSlot(m, c, idx, h) ==
  [m EXCEPT !.ha[m.vn[c].hooks] =
     IF idx <= Len(@) THEN [@ EXCEPT ![idx] = h] ELSE Append(@, h)]

\* An initial value: a plain value, or an initializer function returning it.
Value(x) == [lazy |-> FALSE, v |-> x]

Lazy(x) == [lazy |-> TRUE, v |-> x]

\* Mutant: the initial value is computed before the slot is looked up.
InitialStateEager(m, oldHook, initialValue, idx) ==
  IF initialValue.lazy
  THEN Logged(m, [e |-> "init", comp |-> m.currentComponent, slot |-> idx])
  ELSE m

\* oldHook ?? { state: typeof initialValue === 'function' ? initialValue() : ... }
InitialState(m, oldHook, initialValue, idx) ==
  IF oldHook = 0 /\ initialValue.lazy
  THEN Logged(m, [e |-> "init", comp |-> m.currentComponent, slot |-> idx])
  ELSE m

\* useState(initialValue): the state value is returned in m.ret; the setState
\* closure (component, hook) is handed to the application.
useState(m0, initialValue) ==
  Bind(assertHookContext(m0), LAMBDA m :
    IF ~Ok(m) THEN m
    ELSE
      LET component == m.currentComponent
          idx == m.hookIndex + 1
          oldHook == OldHook(m, idx)
          h == IF oldHook /= 0 THEN oldHook ELSE Len(m.ho) + 1
      IN Bind(InitialState(m, oldHook, initialValue, idx), LAMBDA mi :
         Bind(IF oldHook /= 0 THEN mi
              ELSE [mi EXCEPT !.ho = Append(@, NewStateHook(initialValue.v))],
              LAMBDA m1 :
         Bind(DrainQueue(m1.ho[h].state, m1.ho[h].queue, 1), LAMBDA st :
           [SetSlot([m1 EXCEPT !.ho[h].state = st, !.ho[h].queue = <<>>,
                               !.hookIndex = idx],
                    component, idx, h)
              EXCEPT !.setters = @ \cup {[comp |-> component, hook |-> h]},
                     !.log = Append(@, [e |-> "useState", comp |-> component,
                                        hook |-> h, value |-> st]),
                     !.ret = st]))))

\* Mutant: the action is queued but no re-render is scheduled.
setStateUnscheduled(m, closure, action) ==
  [m EXCEPT !.ho[closure.hook].queue = Append(@, action)]

\* const setState = (action) => { hook.queue.push(action); scheduleRerender(component) }
setState(m, closure, action) ==
  scheduleRerender(
    [m EXCEPT !.ho[closure.hook].queue = Append(@, action)],
    closure.comp)

\* ---- hooks.js: useReducer -------------------------------------------------
\* The application's reducer "tally" is (s, a) => a.fn === 'inc' ? s + 1 : 2 * s.
Reduce(reducer, state, action) ==
  IF reducer = "basicStateReducer" THEN basicStateReducer(state, action)
  ELSE IF action.fn = "inc" THEN state + 1 ELSE 2 * state

\* The application's init function "double" is arg => 2 * arg ("" = no init).
InitOf(init, initialArg) == IF init = "" THEN initialArg ELSE 2 * initialArg

RECURSIVE DrainWithReversed(_, _, _, _)
\* Mutant: the queued actions are applied last-dispatched first.
DrainWithReversed(reducer, state, queue, i) ==
  IF i > Len(queue) THEN state
  ELSE Reduce(reducer, DrainWithReversed(reducer, state, queue, i + 1), queue[i])

RECURSIVE DrainWith(_, _, _, _)
DrainWith(reducer, state, queue, i) ==
  IF i > Len(queue) THEN state
  ELSE DrainWith(reducer, Reduce(reducer, state, queue[i]), queue, i + 1)

\* useReducer(reducer, initialArg, init): state in m.ret, dispatch handed out.
useReducer(m0, reducer, initialArg, init) ==
  Bind(assertHookContext(m0), LAMBDA m :
    IF ~Ok(m) THEN m
    ELSE
      LET component == m.currentComponent
          idx == m.hookIndex + 1
          oldHook == OldHook(m, idx)
          h == IF oldHook /= 0 THEN oldHook ELSE Len(m.ho) + 1
      IN Bind(InitialState(m, oldHook, [lazy |-> init /= "", v |-> 0], idx),
              LAMBDA mi :
         Bind(IF oldHook /= 0 THEN mi
              ELSE [mi EXCEPT !.ho = Append(@,
                                NewStateHook(InitOf(init, initialArg)))],
              LAMBDA m1 :
         Bind(DrainWith(reducer, m1.ho[h].state, m1.ho[h].queue, 1), LAMBDA st :
           [SetSlot([m1 EXCEPT !.ho[h].state = st, !.ho[h].queue = <<>>,
                               !.hookIndex = idx],
                    component, idx, h)
              EXCEPT !.setters = @ \cup {[comp |-> component, hook |-> h]},
                     !.log = Append(@, [e |-> "useReducer", comp |-> component,
                                        hook |-> h, value |-> st,
                                        drained |-> m1.ho[h].queue]),
                     !.ret = st]))))

\* ---- hooks.js: useEffect ---------------------------------------------------
\* Mutant: only the lengths of the two lists are compared.
DepsChangedByLength(deps, oldDeps) ==
  \/ ~deps.def
  \/ ~oldDeps.def
  \/ Len(deps.v) /= Len(oldDeps.v)

DepsChanged(deps, oldDeps) ==
  \/ ~deps.def
  \/ ~oldDeps.def
  \/ Len(deps.v) /= Len(oldDeps.v)
  \/ \E i \in 1..Len(deps.v) : deps.v[i] /= oldDeps.v[i]

\* A callback's own behaviour: it may call a setState closure.
Invoke(m, call) ==
  IF call.comp = 0 THEN m ELSE setState(m, call, call.action)

\* Arguments of the wrong type: a callback that is not a function, a
\* dependency list that is neither an array nor undefined.
NotAFunction ==
  [returnsCleanup |-> FALSE, bodyCall |-> NoCall, cleanupCall |-> NoCall,
   notFunction |-> TRUE]

NotAnArray == [def |-> TRUE, v |-> <<>>, notArray |-> TRUE]

IsFunction(fx) == "notFunction" \notin DOMAIN fx

IsArray(deps) == "notArray" \notin DOMAIN deps

\* Mutant: the arguments are not checked.
validateEffectArgsNever(m, deps, fx) == m

validateEffectArgs(m, deps, fx) ==
  IF ~Ok(m) THEN m
  ELSE IF ~IsFunction(fx) THEN Throw(m, "EffectCallbackError")
  ELSE IF deps.def /\ ~IsArray(deps) THEN Throw(m, "EffectDepsError")
  ELSE m

\* fx describes the callback: returnsCleanup, what the body does (bodyCall)
\* and what the returned cleanup does (cleanupCall).
useEffect(m0, deps, fx) ==
  Bind(validateEffectArgs(assertHookContext(m0), deps, fx), LAMBDA m :
    IF ~Ok(m) THEN m
    ELSE
      LET component == m.currentComponent
          idx == m.hookIndex + 1
          oldHook == OldHook(m, idx)
          hasChanged == IF oldHook /= 0
                        THEN DepsChanged(deps, m.ho[oldHook].deps)
                        ELSE TRUE
          hookRef == Len(m.ho) + 1
      IN Bind([m EXCEPT !.hookIndex = idx,
                        !.log = Append(@, [e |-> "useEffect", comp |-> component,
                                           slot |-> idx, oldHook |-> oldHook,
                                           deps |-> deps,
                                           hasChanged |-> hasChanged,
                                           hookRef |-> IF hasChanged
                                                       THEN hookRef
                                                       ELSE oldHook])],
              LAMBDA m1 :
           IF hasChanged
           THEN queueMicrotask(
                  SetSlot([m1 EXCEPT !.ho = Append(@,
                             IF oldHook /= 0
                             THEN NewEffectHook(deps, m1.ho[oldHook].cleanup,
                                                m1.ho[oldHook].cleanupCall)
                             ELSE NewEffectHook(deps, 0, NoCall))],
                          component, idx, hookRef),
                  [t |-> "effect", hookRef |-> hookRef,
                   comp |-> component, fx |-> fx])
           ELSE SetSlot(m1, component, idx, oldHook)))

\* Mutant: every render makes a new box.
useRefFresh(m0, initialValue) ==
  Bind(assertHookContext(m0), LAMBDA m :
    IF ~Ok(m) THEN m
    ELSE [SetSlot([m EXCEPT !.ho = Append(@, NewRefHook(initialValue)),
                            !.hookIndex = m.hookIndex + 1],
                  m.currentComponent, m.hookIndex + 1, Len(m.ho) + 1)
            EXCEPT !.ret = Len(m.ho) + 1,
                   !.log = Append(@, [e |-> "useRef", comp |-> m.currentComponent,
                                      slot |-> m.hookIndex + 1,
                                      box |-> Len(m.ho) + 1,
                                      current |-> initialValue])])

\* useRef(initialValue): the ref object (its hook id) is returned in m.ret.
useRef(m0, initialValue) ==
  Bind(assertHookContext(m0), LAMBDA m :
    IF ~Ok(m) THEN m
    ELSE
      LET component == m.currentComponent
          idx == m.hookIndex + 1
          oldHook == OldHook(m, idx)
          box == Len(m.ho) + 1
      IN IF oldHook = 0
         THEN [SetSlot([m EXCEPT !.hookIndex = idx,
                                 !.ho = Append(@, NewRefHook(initialValue))],
                       component, idx, box)
                 EXCEPT !.ret = box,
                        !.log = Append(@, [e |-> "useRef", comp |-> component,
                                           slot |-> idx, box |-> box,
                                           current |-> initialValue])]
         ELSE [m EXCEPT !.hookIndex = idx,
                        !.ret = oldHook,
                        !.log = Append(@, [e |-> "useRef", comp |-> component,
                                           slot |-> idx, box |-> oldHook,
                                           current |-> m.ho[oldHook].state])])

\* The microtask queued by useEffect: prior cleanup, then the effect body.
EffectRuns(lg) == Len(SelectSeq(lg, LAMBDA ev : ev.e = "effect"))

RunEffectTask(m, task) ==
  LET h == task.hookRef
      m1 == IF m.ho[h].cleanup /= 0
            THEN Invoke(Logged(m, [e |-> "cleanup", handle |-> m.ho[h].cleanup,
                                   comp |-> task.comp, at |-> "effect"]),
                        m.ho[h].cleanupCall)
            ELSE m
      handle == EffectRuns(m1.log) + 1
      m2 == Invoke(Logged(m1, [e |-> "effect", handle |-> handle,
                               comp |-> task.comp, at |-> "effect",
                               hookRef |-> h, call |-> task.fx.bodyCall]),
                   task.fx.bodyCall)
  IN [m2 EXCEPT !.ho[h].cleanup = IF task.fx.returnsCleanup THEN handle ELSE 0,
                !.ho[h].cleanupCall = IF task.fx.returnsCleanup
                                      THEN task.fx.cleanupCall ELSE NoCall]

\* ---- hooks.js: unmountComponent --------------------------------------------
RECURSIVE CallCleanups(_, _, _, _)
CallCleanups(m, c, arr, i) ==
  IF i > Len(arr) THEN m
  ELSE LET hk == m.ho[arr[i]]
           m1 == IF hk.cleanup /= 0
                 THEN Invoke(Logged(m, [e |-> "cleanup", handle |-> hk.cleanup,
                                        comp |-> c, at |-> "unmount"]),
                             hk.cleanupCall)
                 ELSE m
       IN CallCleanups(m1, c, arr, i + 1)

unmountComponent(m, c) ==
  IF ~Ok(m) \/ c = 0 THEN m
  ELSE IF m.vn[c].hooks = 0 THEN m
  ELSE CallCleanups(Logged(m, [e |-> "unmount", handle |-> 0, comp |-> c,
                               at |-> "unmount"]),
                    c, m.ha[m.vn[c].hooks], 1)

\* ---- the application's component functions ---------------------------------
EmptyDeps == [def |-> TRUE, v |-> <<>>]

Fx(returnsCleanup, bodyCall, cleanupCall) ==
  [returnsCleanup |-> returnsCleanup, bodyCall |-> bodyCall,
   cleanupCall |-> cleanupCall]

\* The setState closure a component body got from its useState at slot idx.
SetterOf(m, idx) ==
  [comp |-> m.currentComponent,
   hook |-> m.ha[m.vn[m.currentComponent].hooks][idx]]

CallOf(closure, action) ==
  [comp |-> closure.comp, hook |-> closure.hook, action |-> action]

\* function Counter() { const [n, set] = useState(0); return <div>{n}</div> }
\* function Timer()  { const [n, set] = useState(0);
\*                     useEffect(() => cleanup, []); return <span>{n}</span> }
\* function Outer()  { return <Timer /> }
\* function Watcher({deps, onState, bump}) {
\*   const [n, setN] = useState(0)
\*   useEffect(() => { if (bump && n !== 1) setN(1); return cleanup },
\*             onState ? [n] : deps)
\*   return <div>{n}</div> }
\* function Cond({extra}) {
\*   const [n, setN] = useState(0)
\*   if (n === 5) throw new Error('Boom')
\*   if (n > 0 || extra) useRef(null)
\*   return <p>{n}</p> }
\* function Bouncer() {
\*   const [n, setN] = useState(0)
\*   if (n === 5) setN(6)
\*   return <p>{n}</p> }
\* function Host() {
\*   const [n, setN] = useState(0)
\*   return <div>{n === 0 ? <Child onGone={setN} /> : n}</div> }
\* function Child({onGone}) {
\*   useEffect(() => () => onGone(7), []); return <i /> }
\* function Parent() {
\*   const [n, setN] = useState(0); return <div>{n}<Kid /></div> }
\* function Kid() { const [n, setN] = useState(() => 3); return <b>{n}</b> }
\* function Tally() {
\*   const [n, dispatch] = useReducer(tally, 1, double); return <p>{n}</p> }
\* function RefBox() {
\*   const box = useRef(7); const [n, setN] = useState(0)
\*   return <p>{box.current}</p> }
\* function Sloppy({bad}) {
\*   const [n, setN] = useState(0)
\*   useEffect(bad === 'callback' ? 42 : () => {}, bad === 'deps' ? 42 : [])
\*   return <p>{n}</p> }
ComponentBody(m, fn, props) ==
  CASE fn = "Counter" ->
         Bind(useState(m, Value(0)), LAMBDA m1 :
           [m1 EXCEPT !.ret = HostD("div", 0, NoProps, <<TextD(m1.ret)>>)])
    [] fn = "Timer" ->
         Bind(useState(m, Value(0)), LAMBDA m1 :
         Bind(useEffect(m1, EmptyDeps, Fx(TRUE, NoCall, NoCall)), LAMBDA m2 :
           [m2 EXCEPT !.ret = HostD("span", 0, NoProps, <<TextD(m1.ret)>>)]))
    [] fn = "Watcher" ->
         Bind(useState(m, Value(0)), LAMBDA m1 :
         Bind(useEffect(m1,
                IF props.onState THEN [def |-> TRUE, v |-> <<m1.ret>>]
                ELSE props.deps,
                Fx(TRUE,
                   IF props.bump /\ m1.ret /= 1
                   THEN CallOf(SetterOf(m1, 1), [fn |-> "set", v |-> 1])
                   ELSE NoCall,
                   NoCall)),
              LAMBDA m2 :
           [m2 EXCEPT !.ret = HostD("div", 0, NoProps, <<TextD(m1.ret)>>)]))
    [] fn = "Cond" ->
         Bind(useState(m, Value(0)), LAMBDA m1 :
           IF m1.ret = 5 THEN Throw(m1, "Boom")
           ELSE Bind(IF m1.ret > 0 \/ props.extra THEN useRef(m1, 0) ELSE m1,
                     LAMBDA m2 :
                  [m2 EXCEPT !.ret = HostD("p", 0, NoProps, <<TextD(m1.ret)>>)]))
    [] fn = "Bouncer" ->
         Bind(useState(m, Value(0)), LAMBDA m1 :
         Bind(IF m1.ret = 5
              THEN setState(m1, SetterOf(m1, 1), [fn |-> "set", v |-> 6])
              ELSE m1,
              LAMBDA m2 :
           [m2 EXCEPT !.ret = HostD("p", 0, NoProps, <<TextD(m1.ret)>>)]))
    [] fn = "Host" ->
         Bind(useState(m, Value(0)), LAMBDA m1 :
           [m1 EXCEPT !.ret =
              HostD("div", 0, NoProps,
                    <<IF m1.ret = 0
                      THEN CompD("Child", 0, [onGone |-> SetterOf(m1, 1)])
                      ELSE TextD(m1.ret)>>)])
    [] fn = "Child" ->
         Bind(useEffect(m, EmptyDeps,
                Fx(TRUE, NoCall, CallOf(props.onGone, [fn |-> "set", v |-> 7]))),
              LAMBDA m1 :
           [m1 EXCEPT !.ret = HostD("i", 0, NoProps, <<>>)])
    [] fn = "Parent" ->
         Bind(useState(m, Value(0)), LAMBDA m1 :
           [m1 EXCEPT !.ret =
              HostD("div", 0, NoProps,
                    <<TextD(m1.ret), CompD("Kid", 0, NoProps)>>)])
    [] fn = "Kid" ->
         Bind(useState(m, Lazy(3)), LAMBDA m1 :
           [m1 EXCEPT !.ret = HostD("b", 0, NoProps, <<TextD(m1.ret)>>)])
    [] fn = "Tally" ->
         Bind(useReducer(m, "tally", 1, "double"), LAMBDA m1 :
           [m1 EXCEPT !.ret = HostD("p", 0, NoProps, <<TextD(m1.ret)>>)])
    [] fn = "RefBox" ->
         Bind(useRef(m, 7), LAMBDA m1 :
         Bind(useState(m1, Value(0)), LAMBDA m2 :
           [m2 EXCEPT !.ret =
              HostD("p", 0, NoProps, <<TextD(m2.ho[m1.ret].state)>>)]))
    [] fn = "Sloppy" ->
         Bind(useState(m, Value(0)), LAMBDA m1 :
         Bind(useEffect(m1,
                IF props.bad = "deps" THEN NotAnArray ELSE EmptyDeps,
                IF props.bad = "callback" THEN NotAFunction
                ELSE Fx(FALSE, NoCall, NoCall)),
              LAMBDA m2 :
           [m2 EXCEPT !.ret = HostD("p", 0, NoProps, <<TextD(m1.ret)>>)]))
    [] fn = "Flip" ->
         Bind(useState(m, Value(0)), LAMBDA m1 :
           [m1 EXCEPT !.ret = HostD(IF m1.ret = 0 THEN "p" ELSE "span", 0,
                                    NoProps, <<TextD(m1.ret)>>)])
    [] fn = "Wrap" ->
         [m EXCEPT !.ret = CompD("Flip", 0, NoProps)]
    [] OTHER ->
         [m EXCEPT !.ret = CompD("Timer", 0, NoProps)]

\* vnode.type(vnode.props): runs the body, then builds the returned element.
CallComponent(m, v, via) ==
  IF ~Ok(m) THEN m
  ELSE Bind(ComponentBody(
              Logged(m, [e |-> "render", handle |-> 0, comp |-> v, at |-> via]),
              m.vn[v].type, m.vn[v].props),
            LAMBDA m2 : IF Ok(m2) THEN createElement(m2, m2.ret) ELSE m2)

\* ---- reconciler.js: Render Phase -------------------------------------------
Effect(type, dom, parentDom) ==
  [type |-> type, dom |-> dom, parentDom |-> parentDom, newDom |-> 0,
   oldDom |-> 0, oldV |-> 0, newV |-> 0, oldProps |-> NoProps,
   newProps |-> NoProps, desiredOrder |-> <<>>]

\* Mutant: the insertion case attaches the new subtree during reconcile.
PushAndPlace(m, eff) ==
  IF ~Ok(m) THEN m
  ELSE IF eff.type = PLACEMENT
  THEN appendChild(
         [m EXCEPT !.pendingEffects = Append(@, eff),
                   !.log = Append(@, [e |-> "push", type |-> eff.type,
                                      oldV |-> eff.oldV, newV |-> eff.newV])],
         eff.parentDom, eff.dom)
  ELSE [m EXCEPT !.pendingEffects = Append(@, eff),
                 !.log = Append(@, [e |-> "push", type |-> eff.type,
                                    oldV |-> eff.oldV, newV |-> eff.newV])]

\* pendingEffects.push(effect)
Push(m, eff) ==
  IF ~Ok(m) THEN m
  ELSE [m EXCEPT !.pendingEffects = Append(@, eff),
                 !.log = Append(@, [e |-> "push", type |-> eff.type,
                                    oldV |-> eff.oldV, newV |-> eff.newV])]

hasKey(m, children) == \E i \in 1..Len(children) : m.vn[children[i]].key /= 0

\* Mutant: every matched pair of host elements counts as changed.
hasPropsChangedAlways(oldProps, newProps) == TRUE

hasPropsChanged(oldProps, newProps) ==
  \/ \E k \in DOMAIN newProps :
        k \notin DOMAIN oldProps \/ oldProps[k] /= newProps[k]
  \/ \E k \in DOMAIN oldProps : k \notin DOMAIN newProps

\* oldKeyed is a Map: insertion-ordered, set() on a present key overwrites.
\* Mutant: the key lookup never finds the old child.
MapHasNever(map, k) == FALSE

MapHas(map, k) == \E i \in 1..Len(map) : map[i].key = k

MapGet(map, k) == LET i == CHOOSE j \in 1..Len(map) : map[j].key = k IN map[i].v

MapSet(map, k, v) ==
  IF MapHas(map, k)
  THEN [i \in 1..Len(map) |-> IF map[i].key = k THEN [key |-> k, v |-> v] ELSE map[i]]
  ELSE Append(map, [key |-> k, v |-> v])

MapDelete(map, k) == SelectSeq(map, LAMBDA x : x.key /= k)

RECURSIVE reconcile(_, _, _, _)
RECURSIVE mountVNode(_, _)
RECURSIVE mountChildren(_, _, _, _)
RECURSIVE cleanupEffects(_, _)
RECURSIVE cleanupChildren(_, _, _)
RECURSIVE reconcileUnkeyedChildren(_, _, _, _, _)
RECURSIVE reconcileNewKeyed(_, _, _, _, _, _, _)
RECURSIVE reconcileStale(_, _, _, _)

cleanupChildren(m, children, i) ==
  IF i > Len(children) THEN m
  ELSE cleanupChildren(cleanupEffects(m, children[i]), children, i + 1)

\* Mutant: the cleanup does not descend into host children.
cleanupEffectsShallow(m, v) ==
  IF ~Ok(m) \/ v = 0 THEN m
  ELSE IF isComponent(m, v) THEN unmountComponent(m, v) ELSE m

cleanupEffects(m, v) ==
  IF ~Ok(m) \/ v = 0 THEN m
  ELSE IF isComponent(m, v)
  THEN Bind(unmountComponent(m, v), LAMBDA m1 :
         cleanupEffects(m1, m1.vn[v].childVNode))
  ELSE cleanupChildren(m, m.vn[v].children, 1)

mountChildren(m, d, children, i) ==
  IF ~Ok(m) \/ i > Len(children) THEN m
  ELSE Bind(mountVNode(m, children[i]), LAMBDA m1 :
         mountChildren(appendChild(m1, d, m1.ret), d, children, i + 1))

\* Builds a detached host subtree; its root is returned in m.ret.
mountVNode(m, v) ==
  IF ~Ok(m) THEN m
  ELSE IF isComponent(m, v)
  THEN Bind(CallComponent(setCurrentComponent(m, v), v, "mount"), LAMBDA m2 :
       Bind(clearCurrentComponent(m2), LAMBDA m3 :
         IF ~Ok(m3) THEN m3
         ELSE Bind(mountVNode(m3, m2.ret), LAMBDA m4 :
                IF ~Ok(m4) THEN m4
                ELSE [m4 EXCEPT !.vn[v].childVNode = m2.ret,
                                !.vn[v].dom = m4.ret])))
  ELSE Bind(createDom(m, v), LAMBDA m1 :
       Bind(mountChildren([m1 EXCEPT !.vn[v].dom = m1.ret], m1.ret,
                          m1.vn[v].children, 1),
            LAMBDA m3 : [m3 EXCEPT !.ret = m1.ret]))

\* Mutant: the loop stops at the length of the new list.
RECURSIVE reconcileUnkeyedToNew(_, _, _, _, _)
reconcileUnkeyedToNew(m, parentDom, oldChildren, newChildren, i) ==
  IF ~Ok(m) \/ i > Len(newChildren) THEN m
  ELSE reconcileUnkeyedToNew(
         reconcile(m, parentDom,
                   IF i <= Len(oldChildren) THEN oldChildren[i] ELSE 0,
                   newChildren[i]),
         parentDom, oldChildren, newChildren, i + 1)

reconcileUnkeyedChildren(m, parentDom, oldChildren, newChildren, i) ==
  LET maxLen == IF Len(oldChildren) > Len(newChildren)
                THEN Len(oldChildren) ELSE Len(newChildren)
  IN IF ~Ok(m) \/ i > maxLen THEN m
     ELSE reconcileUnkeyedChildren(
            reconcile(m, parentDom,
                      IF i <= Len(oldChildren) THEN oldChildren[i] ELSE 0,
                      IF i <= Len(newChildren) THEN newChildren[i] ELSE 0),
            parentDom, oldChildren, newChildren, i + 1)

\* newChildren.forEach(...) of reconcileKeyedChildren; the loop's final
\* oldKeyed and unkeyedIndex are returned in m.ret.
reconcileNewKeyed(m, parentDom, oldKeyed, oldUnkeyed, unkeyedIndex, newChildren, i) ==
  IF ~Ok(m) THEN m
  ELSE IF i > Len(newChildren)
  THEN [m EXCEPT !.ret = [oldKeyed |-> oldKeyed, unkeyedIndex |-> unkeyedIndex]]
  ELSE LET newChild == newChildren[i]
           k == m.vn[newChild].key
           matchedOld == IF k /= 0
                         THEN IF MapHas(oldKeyed, k) THEN MapGet(oldKeyed, k) ELSE 0
                         ELSE IF unkeyedIndex + 1 <= Len(oldUnkeyed)
                              THEN oldUnkeyed[unkeyedIndex + 1] ELSE 0
           map1 == IF k /= 0 /\ matchedOld /= 0 THEN MapDelete(oldKeyed, k)
                   ELSE oldKeyed
           ui1 == IF k /= 0 THEN unkeyedIndex ELSE unkeyedIndex + 1
       IN reconcileNewKeyed(reconcile(m, parentDom, matchedOld, newChild),
                            parentDom, map1, oldUnkeyed, ui1, newChildren, i + 1)

reconcileStale(m, parentDom, stale, i) ==
  IF ~Ok(m) \/ i > Len(stale) THEN m
  ELSE reconcileStale(reconcile(m, parentDom, stale[i], 0), parentDom, stale, i + 1)

RECURSIVE IndexOldChildren(_, _, _, _, _)
IndexOldChildren(m, oldChildren, i, keyed, unkeyed) ==
  IF i > Len(oldChildren) THEN [oldKeyed |-> keyed, oldUnkeyed |-> unkeyed]
  ELSE LET c == oldChildren[i]
       IN IF m.vn[c].key /= 0
          THEN IndexOldChildren(m, oldChildren, i + 1,
                                MapSet(keyed, m.vn[c].key, c), unkeyed)
          ELSE IndexOldChildren(m, oldChildren, i + 1, keyed, Append(unkeyed, c))

DesiredOrder(m, newChildren) ==
  LET doms == [i \in 1..Len(newChildren) |->
                 IF m.vn[newChildren[i]].dom /= 0 THEN m.vn[newChildren[i]].dom
                 ELSE getComponentDom(m, newChildren[i])]
  IN SelectSeq(doms, LAMBDA d : d /= 0)

reconcileKeyedChildren(m, parentDom, oldChildren, newChildren) ==
  LET ix == IndexOldChildren(m, oldChildren, 1, <<>>, <<>>)
  IN Bind(reconcileNewKeyed(m, parentDom, ix.oldKeyed, ix.oldUnkeyed, 0,
                            newChildren, 1),
          LAMBDA m1 :
     IF ~Ok(m1) THEN m1
     ELSE Bind(reconcileStale(m1, parentDom,
                 [i \in 1..Len(m1.ret.oldKeyed) |-> m1.ret.oldKeyed[i].v], 1),
               LAMBDA m2 :
          Bind(reconcileStale(m2, parentDom,
                 SubSeq(ix.oldUnkeyed, m1.ret.unkeyedIndex + 1,
                        Len(ix.oldUnkeyed)), 1),
               LAMBDA m3 :
            IF ~Ok(m3) \/ Len(DesiredOrder(m3, newChildren)) = 0 THEN m3
            ELSE Push(m3, [Effect(REORDER, 0, parentDom) EXCEPT
                             !.desiredOrder = DesiredOrder(m3, newChildren)]))))

reconcileChildren(m, parentDom, oldChildren, newChildren) ==
  IF hasKey(m, newChildren) \/ hasKey(m, oldChildren)
  THEN reconcileKeyedChildren(m, parentDom, oldChildren, newChildren)
  ELSE reconcileUnkeyedChildren(m, parentDom, oldChildren, newChildren, 1)

\* The host-element / text cases of reconcile (after component handling).
reconcileHost(m, parentDom, oldVNode, newVNode) ==
  IF ~Ok(m) THEN m
  ELSE IF oldVNode = 0
  THEN IF newVNode = 0 THEN m
       ELSE Bind(mountVNode(m, newVNode), LAMBDA m1 :
              Push(m1, [Effect(PLACEMENT, m1.ret, parentDom) EXCEPT
                          !.newV = newVNode]))
  ELSE IF newVNode = 0
  THEN Bind(cleanupEffects(m, oldVNode), LAMBDA m1 :
         Push(m1, [Effect(DELETION, m1.vn[oldVNode].dom, parentDom) EXCEPT
                     !.oldV = oldVNode]))
  ELSE IF m.vn[oldVNode].type /= m.vn[newVNode].type
  THEN Bind(mountVNode(cleanupEffects(m, oldVNode), newVNode), LAMBDA m2 :
         Push(m2, [Effect(REPLACE, 0, parentDom) EXCEPT
                     !.newDom = m2.ret, !.oldDom = m2.vn[oldVNode].dom,
                     !.oldV = oldVNode, !.newV = newVNode]))
  ELSE IF m.vn[oldVNode].type = TEXT_ELEMENT
  THEN Bind([m EXCEPT !.vn[newVNode].dom = m.vn[oldVNode].dom], LAMBDA m1 :
         IF m1.vn[oldVNode].nodeValue /= m1.vn[newVNode].nodeValue
         THEN Push(m1, [Effect(UPDATE, m1.vn[oldVNode].dom, 0) EXCEPT
                          !.oldV = oldVNode, !.newV = newVNode])
         ELSE m1)
  ELSE Bind([m EXCEPT !.vn[newVNode].dom = m.vn[oldVNode].dom], LAMBDA m1 :
       Bind(IF hasPropsChanged(m1.vn[oldVNode].props, m1.vn[newVNode].props)
            THEN Push(m1, [Effect(UPDATE, m1.vn[newVNode].dom, 0) EXCEPT
                             !.oldV = oldVNode, !.newV = newVNode,
                             !.oldProps = m1.vn[oldVNode].props,
                             !.newProps = m1.vn[newVNode].props])
            ELSE m1,
            LAMBDA m2 :
         reconcileChildren(m2, m2.vn[newVNode].dom,
                           m2.vn[oldVNode].children, m2.vn[newVNode].children)))

reconcile(m0, parentDom, oldVNode, newVNode) ==
  IF ~Ok(m0) THEN m0
  ELSE
  Bind(Logged(m0, [e |-> "reconcile", oldV |-> oldVNode, newV |-> newVNode]),
       LAMBDA m :
  IF isComponent(m, newVNode)
  THEN Bind(IF isComponent(m, oldVNode)
               /\ m.vn[oldVNode].type = m.vn[newVNode].type
            THEN [m EXCEPT !.vn[newVNode].hooks = m.vn[oldVNode].hooks]
            ELSE m,
            LAMBDA m1 :
       Bind(setCurrentComponent(m1, newVNode), LAMBDA m2 :
       Bind(CallComponent([m2 EXCEPT !.vn[newVNode].parentDom = parentDom],
                          newVNode, "reconcile"),
            LAMBDA m4 :
       Bind(clearCurrentComponent(m4), LAMBDA m5 :
         IF ~Ok(m5) THEN m5
         ELSE Bind(reconcile(m5, parentDom,
                             IF isComponent(m, oldVNode)
                             THEN m5.vn[oldVNode].childVNode ELSE oldVNode,
                             m4.ret),
                   LAMBDA m6 :
                IF ~Ok(m6) THEN m6
                ELSE [m6 EXCEPT
                        !.vn[newVNode].childVNode = m4.ret,
                        !.vn[newVNode].dom = getComponentDom(m6, m4.ret)])))))
  ELSE IF isComponent(m, oldVNode)
  THEN Bind(unmountComponent(m, oldVNode), LAMBDA m1 :
         reconcileHost(m1, parentDom, m1.vn[oldVNode].childVNode, newVNode))
  ELSE reconcileHost(m, parentDom, oldVNode, newVNode))

\* ---- reconciler.js: Commit Phase -------------------------------------------
RECURSIVE commitReorder(_, _, _, _)
\* Mutant: the REORDER record is ignored.
commitReorderSkip(m, parent, desiredOrder, i) == m

commitReorder(m, parent, desiredOrder, i) ==
  IF ~Ok(m) \/ i > Len(desiredOrder) THEN m
  ELSE LET dom == desiredOrder[i]
           kids == m.dom[parent].childNodes
           currentAtPosition == IF i <= Len(kids) THEN kids[i] ELSE 0
       IN commitReorder(
            IF dom /= currentAtPosition
            THEN insertBefore(m, parent, dom, currentAtPosition) ELSE m,
            parent, desiredOrder, i + 1)

\* Mutant: the closure of a text record does nothing.
updateFnPropsOnly(m, effect) ==
  IF m.vn[effect.oldV].type = TEXT_ELEMENT THEN m
  ELSE updateProps(m, m.vn[effect.newV].dom, effect.oldProps, effect.newProps)

\* effect.updateFn(): the closures read the VNodes when they run.
updateFn(m, effect) ==
  IF m.vn[effect.oldV].type = TEXT_ELEMENT
  THEN IF m.vn[effect.oldV].dom = 0 THEN Throw(m, "TypeError")
       ELSE [m EXCEPT !.dom[m.vn[effect.oldV].dom].nodeValue =
                         m.vn[effect.newV].nodeValue]
  ELSE updateProps(m, m.vn[effect.newV].dom, effect.oldProps, effect.newProps)

commitEffect(m, effect) ==
  IF ~Ok(m) THEN m
  ELSE LET m1 == Logged(m, [e |-> "apply", effect |-> effect])
       IN CASE effect.type = PLACEMENT -> appendChild(m1, effect.parentDom, effect.dom)
            [] effect.type = DELETION -> removeChild(m1, effect.parentDom, effect.dom)
            [] effect.type = REPLACE ->
                 replaceChild(m1, effect.parentDom, effect.newDom, effect.oldDom)
            [] effect.type = UPDATE -> updateFn(m1, effect)
            [] effect.type = REORDER ->
                 IF effect.parentDom = 0 THEN Throw(m1, "TypeError")
                 ELSE commitReorder(m1, effect.parentDom, effect.desiredOrder, 1)
            [] OTHER -> m1

RECURSIVE commitEach(_, _, _)
commitEach(m, effects, i) ==
  IF i > Len(effects) THEN m
  ELSE commitEach(commitEffect(m, effects[i]), effects, i + 1)

\* Mutant: the queue is not reset, so a later commit applies it again.
commitRootKeep(m) ==
  IF ~Ok(m) THEN m ELSE commitEach(m, m.pendingEffects, 1)

commitRoot(m) ==
  IF ~Ok(m) THEN m
  ELSE LET effects == m.pendingEffects
       IN commitEach([m EXCEPT !.pendingEffects = <<>>], effects, 1)

\* A host callback that fires synchronously while record k is applied (a blur
\* or disconnect handler of the node being moved) and calls reconcile.
reenter(m, oldV, tree) ==
  IF ~Ok(m) THEN m
  ELSE Bind(createElement(m, tree), LAMBDA m0 :
         reconcile(Logged(m0, [e |-> "reenter", newV |-> m0.ret]),
                   Container, oldV, m0.ret))

RECURSIVE commitEachDuring(_, _, _, _, _, _)
commitEachDuring(m, effects, i, k, oldV, tree) ==
  IF i > Len(effects) THEN m
  ELSE Bind(commitEffect(m, effects[i]), LAMBDA m1 :
         commitEachDuring(IF i = k THEN reenter(m1, oldV, tree) ELSE m1,
                          effects, i + 1, k, oldV, tree))

\* Mutant: the loop walks the live queue and resets it afterwards.
RECURSIVE commitEachLive(_, _, _, _, _)
commitEachLive(m, i, k, oldV, tree) ==
  IF ~Ok(m) THEN m
  ELSE IF i > Len(m.pendingEffects) THEN [m EXCEPT !.pendingEffects = <<>>]
  ELSE Bind(commitEffect(m, m.pendingEffects[i]), LAMBDA m1 :
         commitEachLive(IF i = k THEN reenter(m1, oldV, tree) ELSE m1,
                        i + 1, k, oldV, tree))

commitRootLive(m, k, oldV, tree) == commitEachLive(m, 1, k, oldV, tree)

\* commitRoot with the callback firing at record k.
commitRootDuring(m, k, oldV, tree) ==
  IF ~Ok(m) THEN m
  ELSE LET effects == m.pendingEffects
       IN commitEachDuring([m EXCEPT !.pendingEffects = <<>>], effects, 1,
                           k, oldV, tree)

\* ---- hooks.js: flushUpdates / renderComponent ------------------------------
renderComponent(m, component) ==
  IF ~Ok(m) THEN m
  ELSE Bind(CallComponent(setCurrentComponent(m, component), component, "flush"),
            LAMBDA m2 :
       Bind(clearCurrentComponent(m2), LAMBDA m3 :
         IF ~Ok(m3) THEN m3
         ELSE Bind(reconcile(m3, m3.vn[component].parentDom,
                             m3.vn[component].childVNode, m2.ret),
                   LAMBDA m4 :
                IF ~Ok(m4) THEN m4
                ELSE [m4 EXCEPT
                        !.vn[component].childVNode = m2.ret,
                        !.vn[component].dom = getComponentDom(m4, m2.ret)])))

RECURSIVE renderEach(_, _, _)
renderEach(m, pending, i) ==
  IF i > Len(pending) THEN m
  ELSE renderEach(renderComponent(m, pending[i]), pending, i + 1)

\* Mutant: the dirty set and the flag are cleared after the re-renders.
flushUpdatesClearsLate(m) ==
  Bind(renderEach(Logged(m, [e |-> "flushUpdates"]), m.dirtyComponents, 1),
       LAMBDA m1 : [m1 EXCEPT !.flushScheduled = FALSE,
                              !.dirtyComponents = <<>>])

flushUpdates(m) ==
  LET pending == m.dirtyComponents
      m1 == [m EXCEPT !.flushScheduled = FALSE, !.dirtyComponents = <<>>,
                      !.log = Append(@, [e |-> "flushUpdates"])]
  IN renderEach(m1, pending, 1)

\* ---- root.js ---------------------------------------------------------------
\* Mutant: the commit sits in a finally block, so it also runs when the
\* reconcile threw.
rootRenderFinally(m, cur, nextVNode) ==
  Bind(reconcile(m, Container, cur, nextVNode), LAMBDA r :
  Bind(commitRoot([r EXCEPT !.err = ""]), LAMBDA m2 :
    [m2 EXCEPT !.err = IF Ok(r) THEN m2.err ELSE r.err,
               !.ret = IF Ok(r) /\ Ok(m2) THEN nextVNode ELSE cur]))

\* root.render(nextVNode): m.ret is the VNode kept as root.currentVNode.
rootRender(m, cur, nextVNode) ==
  Bind(commitRoot(reconcile(m, Container, cur, nextVNode)), LAMBDA m2 :
    [m2 EXCEPT !.ret = IF Ok(m2) THEN nextVNode ELSE cur])

rootUnmount(m, cur) ==
  Bind(commitRoot(reconcile(m, Container, cur, 0)), LAMBDA m2 :
    [m2 EXCEPT !.ret = IF Ok(m2) THEN 0 ELSE cur])

\* Mutant: every call makes a new root.
createRootFresh(reg, container) ==
  [reg EXCEPT !.objs = Append(@, [container |-> container, currentVNode |-> 0]),
              !.map = MapSet(@, container, Len(reg.objs) + 1),
              !.acted = Len(reg.objs) + 1]

\* createRoot(container): the root returned is left in reg.acted.
createRoot(reg, container) ==
  IF MapHas(reg.map, container)
  THEN [reg EXCEPT !.acted = MapGet(reg.map, container)]
  ELSE [reg EXCEPT !.objs = Append(@, [container |-> container, currentVNode |-> 0]),
                   !.map = MapSet(@, container, Len(reg.objs) + 1),
                   !.acted = Len(reg.objs) + 1]

\* root.render(nextVNode) of the root object root.
renderOf(m, root, nextVNode) ==
  Bind(commitRoot(reconcile(m, root.container, root.currentVNode, nextVNode)),
       LAMBDA m2 :
    [m2 EXCEPT !.ret = IF Ok(m2) THEN nextVNode ELSE root.currentVNode])

\* root.unmount() up to `this.currentVNode = null`.
unmountOf(m, root) ==
  Bind(commitRoot(reconcile(m, root.container, root.currentVNode, 0)),
       LAMBDA m2 :
    [m2 EXCEPT !.ret = IF Ok(m2) THEN 0 ELSE root.currentVNode])

\* ---- the VNodes reachable from a tree (its mounted occurrences) -----------
RECURSIVE Reach(_, _)
RECURSIVE ReachAll(_, _, _)
ReachAll(vn, vs, i) ==
  IF i > Len(vs) THEN {} ELSE Reach(vn, vs[i]) \cup ReachAll(vn, vs, i + 1)

Reach(vn, v) ==
  IF v = 0 THEN {}
  ELSE {v} \cup Reach(vn, vn[v].childVNode) \cup ReachAll(vn, vn[v].children, 1)

Mounted(v) == v \in Reach(vnodes, currentVNode)

\* ---- inputs ----------------------------------------------------------------
Actions == {[fn |-> "inc", v |-> 0], [fn |-> "set", v |-> 5]}

RootTrees ==
  { CompD("Counter", 0, NoProps),
    CompD("Timer", 0, NoProps),
    HostD("div", 0, NoProps, <<CompD("Timer", 0, NoProps)>>),
    HostD("div", 0, NoProps, <<>>) }

\* ---- initial state ---------------------------------------------------------
NoOp == [op |-> "init", old |-> 0, new |-> 0, dom |-> <<>>, dom0 |-> <<>>,
         pend |-> <<>>, logLen |-> 0, logLen0 |-> 0, err |-> "", cc |-> 0,
         dirty |-> <<>>]

\* No root created yet; the document has the one container of Init.
NoRoots == [extra |-> 0, objs |-> <<>>, map |-> <<>>, calls |-> <<>>, acted |-> 0]

NewTurn == [start |-> 0, calls |-> <<>>, closed |-> FALSE]

Init ==
  /\ vnodes = <<>>
  /\ domNodes = <<NewDomNode("container", 0)>>
  /\ hookArrays = <<>>
  /\ hookObjs = <<>>
  /\ pendingEffects = <<>>
  /\ dirtyComponents = <<>>
  /\ flushScheduled = FALSE
  /\ currentComponent = 0
  /\ hookIndex = 0
  /\ microtasks = <<>>
  /\ currentVNode = 0
  /\ setters = {}
  /\ log = <<>>
  /\ lastOp = NoOp
  /\ turn = NewTurn
  /\ phase = "idle"
  /\ ops = 0
  /\ rootReg = NoRoots

\* ---- bookkeeping shared by the actions -------------------------------------
\* dom / pend / logLen: the state the operation started from; dom0 / logLen0:
\* the state the reconcile before a commit started from.
Snapshot(op, old, new, m) ==
  [op |-> op, old |-> old, new |-> new, dom |-> domNodes,
   dom0 |-> IF op = "commit" THEN lastOp.dom ELSE domNodes,
   pend |-> pendingEffects, logLen |-> Len(log),
   logLen0 |-> IF op = "commit" THEN lastOp.logLen ELSE Len(log),
   err |-> m.err, cc |-> currentComponent, dirty |-> dirtyComponents]

\* An external call runs in the current synchronous turn; the first call after
\* the microtask queue has drained opens a new turn.
TurnAfter(call) ==
  IF turn.closed
  THEN [start |-> Len(log), calls |-> <<call>>, closed |-> FALSE]
  ELSE [turn EXCEPT !.calls = Append(@, call)]

External == phase = "idle" /\ ops < MaxOps

\* ---- actions of the runtime (root API, setters, microtasks) ----------------
RootRender(tree) ==
  /\ UNCHANGED rootReg
  /\ External
  /\ \E m0 \in {createElement(Machine, tree)} :
       \E m \in {rootRender(m0, currentVNode, m0.ret)} :
         /\ Store(m)
         /\ currentVNode' = m.ret
         /\ lastOp' = Snapshot("render", currentVNode, m0.ret, m)
         /\ turn' = TurnAfter([op |-> "render"])
  /\ ops' = ops + 1
  /\ UNCHANGED phase

RootUnmount ==
  /\ UNCHANGED rootReg
  /\ External
  /\ currentVNode /= 0
  /\ \E m \in {rootUnmount(Machine, currentVNode)} :
        /\ Store(m)
        /\ currentVNode' = m.ret
        /\ lastOp' = Snapshot("unmount", currentVNode, 0, m)
        /\ turn' = TurnAfter([op |-> "unmount"])
  /\ ops' = ops + 1
  /\ UNCHANGED phase

TurnUpdates == Len(SelectSeq(turn.calls, LAMBDA c : c.op = "setState"))

SetState(closure, action) ==
  /\ UNCHANGED rootReg
  /\ External
  /\ turn.closed \/ TurnUpdates < MaxTurnUpdates
  /\ \E m \in {setState(Machine, closure, action)} :
        /\ Store(m)
        /\ lastOp' = Snapshot("setState", 0, 0, m)
        /\ turn' = TurnAfter([op |-> "setState", closure |-> closure,
                              action |-> action,
                              pre |-> hookObjs[closure.hook].state,
                              queued |-> Len(hookObjs[closure.hook].queue),
                              mounted |-> Mounted(closure.comp)])
  /\ ops' = ops + 1
  /\ UNCHANGED <<currentVNode, phase>>

\* After a microtask: keep draining while the queue is non-empty.
AfterTask(m) ==
  /\ phase' = IF m.microtasks = <<>> THEN "idle" ELSE "draining"
  /\ turn' = [turn EXCEPT !.closed = (m.microtasks = <<>>)]

FlushUpdates ==
  /\ UNCHANGED rootReg
  /\ phase \in {"idle", "draining"}
  /\ microtasks /= <<>>
  /\ Head(microtasks).t = "flushUpdates"
  /\ \E m \in {flushUpdates([Machine EXCEPT !.microtasks = Tail(@)])} :
        /\ Store(m)
        /\ lastOp' = Snapshot("flush", 0, 0, m)
        /\ AfterTask(m)
  /\ UNCHANGED <<currentVNode, ops>>

RunEffect ==
  /\ UNCHANGED rootReg
  /\ phase \in {"idle", "draining"}
  /\ microtasks /= <<>>
  /\ Head(microtasks).t = "effect"
  /\ \E m \in {RunEffectTask([Machine EXCEPT !.microtasks = Tail(@)],
                              Head(microtasks))} :
        /\ Store(m)
        /\ lastOp' = Snapshot("effect", 0, 0, m)
        /\ AfterTask(m)
  /\ UNCHANGED <<currentVNode, ops>>

Next ==
  \/ \E tree \in RootTrees : RootRender(tree)
  \/ RootUnmount
  \/ \E closure \in setters, action \in Actions : SetState(closure, action)
  \/ FlushUpdates
  \/ RunEffect

Spec == Init /\ [][Next]_vars

\* ---- hooks, effects and the scheduler under erroneous and re-entrant use ---
UndefinedDeps == [def |-> FALSE, v |-> <<>>]

Deps(v) == [def |-> TRUE, v |-> v]

HookNames == {"useState", "useReducer", "useEffect", "useRef"}

\* The application calls a hook from outside any component function.
CallHook(m, hk) ==
  CASE hk = "useState" -> useState(m, Value(0))
    [] hk = "useReducer" -> useReducer(m, "tally", 0, "")
    [] hk = "useEffect" -> useEffect(m, UndefinedDeps, Fx(FALSE, NoCall, NoCall))
    [] OTHER -> useRef(m, 0)

HookOutside(hk) ==
  /\ UNCHANGED rootReg
  /\ External
  /\ \E m \in {CallHook(Machine, hk)} :
        /\ Store(m)
        /\ lastOp' = Snapshot(hk, 0, 0, m)
        /\ turn' = TurnAfter([op |-> "hook"])
  /\ ops' = ops + 1
  /\ UNCHANGED <<currentVNode, phase>>

Watcher(deps, onState, bump) ==
  CompD("Watcher", 0, [deps |-> deps, onState |-> onState, bump |-> bump])

FxTrees ==
  { Watcher(UndefinedDeps, TRUE, TRUE),
    Watcher(UndefinedDeps, FALSE, FALSE),
    Watcher(Deps(<<>>), FALSE, FALSE),
    Watcher(Deps(<<1>>), FALSE, FALSE),
    Watcher(Deps(<<1, 2>>), FALSE, FALSE),
    CompD("Bouncer", 0, NoProps),
    CompD("Host", 0, NoProps) }

FxExternal == ops < MaxFxOps

NextFx ==
  \/ FxExternal /\ \E tree \in FxTrees : RootRender(tree)
  \/ FxExternal /\ RootUnmount
  \/ FxExternal /\ \E closure \in setters, action \in Actions : SetState(closure, action)
  \/ FlushUpdates
  \/ RunEffect

SpecFx == Init /\ [][NextFx]_vars

CtxTrees ==
  { CompD("Cond", 0, [extra |-> FALSE]),
    CompD("Cond", 0, [extra |-> TRUE]),
    CompD("Counter", 0, NoProps) }

CtxExternal == ops < MaxCtxOps

NextCtx ==
  \/ CtxExternal /\ \E tree \in CtxTrees : RootRender(tree)
  \/ CtxExternal /\ RootUnmount
  \/ CtxExternal /\ \E closure \in setters, action \in Actions : SetState(closure, action)
  \/ CtxExternal /\ \E hk \in HookNames : HookOutside(hk)
  \/ FlushUpdates
  \/ RunEffect

SpecCtx == Init /\ [][NextCtx]_vars

\* ---- trees of stateful components: nested, and lists keyed or by position ---
KidList(ks) ==
  HostD("ul", 0, NoProps, [i \in 1..Len(ks) |-> CompD("Kid", ks[i], NoProps)])

StateTrees ==
  { CompD("Parent", 0, NoProps),
    KidList(<<1, 2>>),
    KidList(<<2, 1>>),
    KidList(<<0, 0>>),
    CompD("Tally", 0, NoProps) }

TreeExternal == ops < MaxTreeOps

NextTree ==
  \/ TreeExternal /\ \E tree \in StateTrees : RootRender(tree)
  \/ TreeExternal /\ \E closure \in setters, action \in Actions : SetState(closure, action)
  \/ FlushUpdates

SpecTree == Init /\ [][NextTree]_vars

\* ---- hooks with arguments: reducer, ref box, malformed effect arguments ------
Sloppy(bad) == CompD("Sloppy", 0, [bad |-> bad])

HookTrees ==
  { CompD("Tally", 0, NoProps),
    CompD("RefBox", 0, NoProps),
    Sloppy("callback"),
    Sloppy("deps"),
    Sloppy("") }

\* The ref boxes the application holds, and the values it writes to them.
Boxes == {h \in 1..Len(hookObjs) : hookObjs[h].tag = "ref"}

Written == {8, 9}

\* box.current = v
WriteRef(box, v) ==
  /\ UNCHANGED rootReg
  /\ External
  /\ hookObjs' = [hookObjs EXCEPT ![box].state = v]
  /\ lastOp' = Snapshot("writeRef", box, v, Machine)
  /\ turn' = TurnAfter([op |-> "writeRef"])
  /\ ops' = ops + 1
  /\ UNCHANGED <<vnodes, domNodes, hookArrays, pendingEffects, dirtyComponents,
                 flushScheduled, currentComponent, hookIndex, microtasks,
                 currentVNode, setters, log, phase>>

HookExternal == ops < MaxHookOps

NextHook ==
  \/ HookExternal /\ \E tree \in HookTrees : RootRender(tree)
  \/ HookExternal /\ \E closure \in setters, action \in Actions : SetState(closure, action)
  \/ HookExternal /\ \E box \in Boxes, v \in Written : WriteRef(box, v)
  \/ FlushUpdates
  \/ RunEffect

SpecHook == Init /\ [][NextHook]_vars

\* ---- a render that aborts -------------------------------------------------------
AbortTrees ==
  { HostD("div", 0, NoProps,
          <<CompD("Counter", 0, NoProps), CompD("Cond", 0, [extra |-> FALSE])>>),
    CompD("Cond", 0, [extra |-> FALSE]) }

\* root.render(element) called again with the element already rendered.
RootRenderSame ==
  /\ UNCHANGED rootReg
  /\ External
  /\ currentVNode /= 0
  /\ \E m \in {rootRender(Machine, currentVNode, currentVNode)} :
        /\ Store(m)
        /\ currentVNode' = m.ret
        /\ lastOp' = Snapshot("render", currentVNode, currentVNode, m)
        /\ turn' = TurnAfter([op |-> "render"])
  /\ ops' = ops + 1
  /\ UNCHANGED phase

AbortExternal == ops < MaxAbortOps

NextAbort ==
  \/ AbortExternal /\ \E tree \in AbortTrees : RootRender(tree)
  \/ AbortExternal /\ RootRenderSame
  \/ AbortExternal /\ \E closure \in setters, action \in Actions : SetState(closure, action)
  \/ FlushUpdates

SpecAbort == Init /\ [][NextAbort]_vars

\* The guards of FlushUpdates: a flush is at the head of the microtask queue.
FlushReady ==
  /\ phase \in {"idle", "draining"}
  /\ microtasks /= <<>>
  /\ Head(microtasks).t = "flushUpdates"

\* The host runs every queued microtask once the current script has returned:
\* weak fairness of the flush, WF_vars(FlushUpdates), written out as
\* []<>~ENABLED <<A>>_vars \/ []<><<A>>_vars with the guards of the action
\* for its enabling condition (a flush always changes log).
FlushFair == []<>(~FlushReady) \/ []<><<FlushUpdates>>_vars

SpecAbortLive == SpecAbort /\ FlushFair

\* ---- several roots ----------------------------------------------------------------
RootsTrees ==
  { CompD("Flip", 0, NoProps), HostD("p", 0, NoProps, <<TextD(1)>>) }

Containers == {Container} \cup (IF rootReg.extra = 0 THEN {} ELSE {rootReg.extra})

\* The roots the application got from createRoot and has not unmounted.
LiveRoots ==
  {r \in 1..Len(rootReg.objs) :
     /\ MapHas(rootReg.map, rootReg.objs[r].container)
     /\ MapGet(rootReg.map, rootReg.objs[r].container) = r}

\* const container2 = document.createElement('div')
CreateContainer ==
  /\ phase = "idle"
  /\ rootReg.extra = 0
  /\ domNodes' = Append(domNodes, NewDomNode("div", 0))
  /\ rootReg' = [rootReg EXCEPT !.extra = Len(domNodes) + 1, !.acted = 0]
  /\ lastOp' = Snapshot("createContainer", 0, Len(domNodes) + 1, Machine)
  /\ UNCHANGED <<vnodes, hookArrays, hookObjs, pendingEffects, dirtyComponents,
                 flushScheduled, currentComponent, hookIndex, microtasks,
                 currentVNode, setters, log, turn, phase, ops>>

CreateRoot(container) ==
  /\ phase = "idle"
  /\ Len(rootReg.calls) < MaxRootCalls
  /\ \E reg \in {createRoot(rootReg, container)} :
        /\ rootReg' = [reg EXCEPT !.calls =
                         Append(@, [op |-> "createRoot", container |-> container,
                                    root |-> reg.acted])]
        /\ lastOp' = Snapshot("createRoot", container, reg.acted, Machine)
  /\ UNCHANGED <<vnodes, domNodes, hookArrays, hookObjs, pendingEffects,
                 dirtyComponents, flushScheduled, currentComponent, hookIndex,
                 microtasks, currentVNode, setters, log, turn, phase, ops>>

RenderOf(r, tree) ==
  /\ phase = "idle"
  /\ ops < MaxRootOps
  /\ \E m0 \in {createElement(Machine, tree)} :
       \E m \in {renderOf(m0, rootReg.objs[r], m0.ret)} :
         /\ Store(m)
         /\ rootReg' = [rootReg EXCEPT !.objs[r].currentVNode = m.ret,
                                       !.acted = r]
         /\ lastOp' = Snapshot("render", rootReg.objs[r].currentVNode, m0.ret, m)
         /\ turn' = TurnAfter([op |-> "render"])
  /\ ops' = ops + 1
  /\ UNCHANGED <<currentVNode, phase>>

\* root.unmount(): roots.delete(container) is reached only without an error.
UnmountOf(r) ==
  /\ phase = "idle"
  /\ ops < MaxRootOps
  /\ Len(rootReg.calls) < MaxRootCalls
  /\ \E m \in {unmountOf(Machine, rootReg.objs[r])} :
        /\ Store(m)
        /\ rootReg' =
             IF Ok(m)
             THEN [rootReg EXCEPT
                     !.objs[r].currentVNode = 0,
                     !.map = MapDelete(@, rootReg.objs[r].container),
                     !.calls = Append(@, [op |-> "unmount",
                                          container |-> rootReg.objs[r].container,
                                          root |-> r]),
                     !.acted = r]
             ELSE [rootReg EXCEPT !.acted = r]
        /\ lastOp' = Snapshot("unmount", rootReg.objs[r].currentVNode, 0, m)
        /\ turn' = TurnAfter([op |-> "unmount"])
  /\ ops' = ops + 1
  /\ UNCHANGED <<currentVNode, phase>>

NextRoots ==
  \/ CreateContainer
  \/ \E container \in Containers : CreateRoot(container)
  \/ \E r \in LiveRoots, tree \in RootsTrees : RenderOf(r, tree)
  \/ \E r \in LiveRoots : UnmountOf(r)
  \/ ops < MaxRootOps
       /\ \E closure \in setters, action \in Actions : SetState(closure, action)
  \/ FlushUpdates

SpecRoots == Init /\ [][NextRoots]_vars

\* ---- a component that returns a component ------------------------------------------
NestTrees ==
  { CompD("Wrap", 0, NoProps),
    CompD("Flip", 0, NoProps),
    HostD("div", 0, NoProps, <<CompD("Wrap", 0, NoProps)>>) }

NestExternal == ops < MaxNestOps

NextNest ==
  \/ NestExternal /\ \E tree \in NestTrees : RootRender(tree)
  \/ NestExternal /\ \E closure \in setters, action \in Actions : SetState(closure, action)
  \/ FlushUpdates

SpecNest == Init /\ [][NextNest]_vars

\* ---- the reconciler API used directly (reconcile, then commitRoot) ---------
Keys == {1, 2, 3}

KeyLists ==
  {<<>>} \cup {<<a>> : a \in Keys}
  \cup {<<a, b>> : a, b \in Keys} \cup {<<a, b, c>> : a, b, c \in Keys}

UniqueKeys(ks) == \A i, j \in 1..Len(ks) : ks[i] = ks[j] => i = j

\* A keyed child: <li key=k/>, or <Timer key=3/> for the third key.
Item(k) ==
  IF k = 3 THEN CompD("Timer", k, NoProps) ELSE HostD("li", k, NoProps, <<>>)

KeyedList(ks) == HostD("ul", 0, NoProps, [i \in 1..Len(ks) |-> Item(ks[i])])

IdProps(n) == [k \in {"id"} |-> n]

\* ---- a render that aborts after it queued records -------------------------------
DropTrees ==
  { HostD("div", 0, IdProps(1), <<CompD("Cond", 0, [extra |-> FALSE])>>),
    HostD("div", 0, IdProps(2), <<CompD("Cond", 0, [extra |-> FALSE])>>),
    HostD("div", 0, IdProps(2), <<CompD("Counter", 0, NoProps)>>) }

DropExternal == ops < MaxDropOps

NextDrop ==
  \/ DropExternal /\ \E tree \in DropTrees : RootRender(tree)
  \/ DropExternal /\ \E closure \in setters, action \in Actions : SetState(closure, action)
  \/ FlushUpdates

SpecDrop == Init /\ [][NextDrop]_vars

DiffTrees ==
  {KeyedList(ks) : ks \in {l \in KeyLists : UniqueKeys(l)}}
  \cup { TextD(1), TextD(2),
         HostD("div", 0, NoProps, <<TextD(1)>>),
         HostD("div", 0, IdProps(1), <<TextD(2)>>),
         HostD("span", 0, NoProps, <<CompD("Timer", 0, NoProps)>>),
         HostD("span", 0, NoProps, <<TextD(0)>>),
         CompD("Timer", 0, NoProps),
         CompD("Counter", 0, NoProps),
         CompD("Outer", 0, NoProps) }

DiffReconcile(tree) ==
  /\ UNCHANGED rootReg
  /\ phase = "idle"
  /\ ops < MaxDiffOps
  /\ \E m0 \in {createElement(Machine, tree)} :
       \E m \in {reconcile(m0, Container, currentVNode, m0.ret)} :
         /\ Store(m)
         /\ lastOp' = Snapshot("reconcile", currentVNode, m0.ret, m)
  /\ phase' = "reconciled"
  /\ ops' = ops + 1
  /\ UNCHANGED <<currentVNode, turn>>

DiffRemove ==
  /\ UNCHANGED rootReg
  /\ phase = "idle"
  /\ ops < MaxDiffOps
  /\ currentVNode /= 0
  /\ \E m \in {reconcile(Machine, Container, currentVNode, 0)} :
        /\ Store(m)
        /\ lastOp' = Snapshot("reconcile", currentVNode, 0, m)
  /\ phase' = "reconciled"
  /\ ops' = ops + 1
  /\ UNCHANGED <<currentVNode, turn>>

DiffCommit ==
  /\ UNCHANGED rootReg
  /\ phase = "reconciled"
  /\ \E m \in {commitRoot(Machine)} :
        /\ Store(m)
        /\ lastOp' = Snapshot("commit", lastOp.old, lastOp.new, m)
  /\ currentVNode' = lastOp.new
  /\ phase' = "idle"
  /\ UNCHANGED <<ops, turn>>

\* ---- several reconciles before one commit --------------------------------------
CommitTrees ==
  { KeyedList(<<1, 2>>), KeyedList(<<1>>), KeyedList(<<2, 1>>),
    TextD(1), HostD("span", 0, NoProps, <<TextD(0)>>) }

\* reconcile(container, current, tree) while the records of an earlier
\* reconcile still wait for their commit.
ReconcileAgain(tree) ==
  /\ UNCHANGED rootReg
  /\ phase = "reconciled"
  /\ ops < MaxCommitOps
  /\ \E m0 \in {createElement(Machine, tree)} :
       \E m \in {reconcile(m0, Container, currentVNode, m0.ret)} :
         /\ Store(m)
         /\ lastOp' = Snapshot("reconcile", currentVNode, m0.ret, m)
  /\ ops' = ops + 1
  /\ UNCHANGED <<currentVNode, turn, phase>>

NextCommit ==
  \/ \E tree \in CommitTrees : DiffReconcile(tree)
  \/ \E tree \in CommitTrees : ReconcileAgain(tree)
  \/ DiffCommit

SpecCommit == Init /\ [][NextCommit]_vars

\* ---- a reconcile triggered while a commit is being applied ---------------------
ReenterTrees ==
  { KeyedList(<<1, 2>>), KeyedList(<<2, 1>>), KeyedList(<<1>>),
    HostD("span", 0, NoProps, <<TextD(0)>>), TextD(1) }

LastReentered(lg) ==
  lg[CHOOSE i \in 1..Len(lg) :
       /\ lg[i].e = "reenter"
       /\ \A j \in (i + 1)..Len(lg) : lg[j].e /= "reenter"].newV

CommitReentrant(k, tree) ==
  /\ UNCHANGED rootReg
  /\ phase = "reconciled"
  /\ ops < MaxReenterOps
  /\ k \in 1..Len(pendingEffects)
  /\ \E m \in {commitRootDuring(Machine, k, lastOp.new, tree)} :
        /\ Store(m)
        /\ lastOp' = Snapshot("reentrant", lastOp.new,
                              IF Ok(m) THEN LastReentered(m.log) ELSE lastOp.new, m)
  /\ currentVNode' = lastOp.new
  /\ ops' = ops + 1
  /\ UNCHANGED <<turn, phase>>

NextReenter ==
  \/ \E tree \in ReenterTrees : DiffReconcile(tree)
  \/ \E k \in 1..3, tree \in ReenterTrees : CommitReentrant(k, tree)
  \/ DiffCommit

SpecReenter == Init /\ [][NextReenter]_vars

\* ---- host elements that differ in a text or in their props -----------------------
Para(props, v) == HostD("p", 0, props, <<TextD(v)>>)

PropTrees ==
  { TextD(1), TextD(2),
    Para(NoProps, 1), Para(NoProps, 2),
    Para(IdProps(1), 1), Para(IdProps(2), 1),
    Para([k \in {"id", "title"} |-> 1], 1),
    HostD("div", 0, NoProps, <<Para(NoProps, 1), TextD(2)>>),
    HostD("div", 0, NoProps, <<Para(NoProps, 2), TextD(2)>>) }

NextProps ==
  \/ \E tree \in PropTrees : DiffReconcile(tree)
  \/ DiffCommit

SpecProps == Init /\ [][NextProps]_vars

\* ---- unkeyed child lists ------------------------------------------------------------
Cells == {"li", "b"}

CellLists ==
  {<<>>} \cup {<<a>> : a \in Cells} \cup {<<a, b>> : a, b \in Cells}
  \cup {<<a, b, c>> : a, b, c \in Cells}

Row(cells) ==
  HostD("ul", 0, NoProps,
        [i \in 1..Len(cells) |-> HostD(cells[i], 0, NoProps, <<>>)])

RowTrees == {Row(cells) : cells \in CellLists}

NextRows ==
  \/ \E tree \in RowTrees : DiffReconcile(tree)
  \/ DiffCommit

SpecRows == Init /\ [][NextRows]_vars

NextDiff ==
  \/ \E tree \in DiffTrees : DiffReconcile(tree)
  \/ DiffRemove
  \/ DiffCommit
  \/ RunEffect

SpecDiff == Init /\ [][NextDiff]_vars

\* ==== properties ============================================================
RECURSIVE Attached(_, _)
Attached(dom, d) ==
  IF d = Container THEN TRUE
  ELSE IF dom[d].parentNode = 0 THEN FALSE
  ELSE Attached(dom, dom[d].parentNode)

IsPrefix(a, b) == Len(a) <= Len(b) /\ SubSeq(b, 1, Len(a)) = a

LogSince(n) == SubSeq(log, n + 1, Len(log))

IsComp(v) == v /= 0 /\ vnodes[v].type \in ComponentFns

HostOf(v) == getComponentDom([vn |-> vnodes], v)

\* C3: reconcile never mutates the host tree: after reconcile and before the
\* commit, every host node that was attached keeps its children, value and
\* attributes, every host node reconcile created is detached, and the
\* Mutation Queue has only grown at its end.
C3_ReconcileLeavesHostTree ==
  lastOp.op = "reconcile" =>
    /\ \A d \in 1..Len(lastOp.dom) :
         Attached(lastOp.dom, d) => domNodes[d] = lastOp.dom[d]
    /\ \A d \in (Len(lastOp.dom) + 1)..Len(domNodes) : ~Attached(domNodes, d)
    /\ IsPrefix(lastOp.pend, pendingEffects)

C3_Witness ==
  /\ lastOp.op = "reconcile"
  /\ lastOp.old /= 0
  /\ Len(domNodes) > Len(lastOp.dom)
  /\ Len(pendingEffects) > Len(lastOp.pend)

\* C4: commit applies every record of the Mutation Queue exactly once, in the
\* order reconcile appended them, and leaves the queue empty; with an empty
\* queue it changes nothing and does not fail.
AppliedSince(n) ==
  LET evs == SelectSeq(LogSince(n), LAMBDA ev : ev.e = "apply")
  IN [i \in 1..Len(evs) |-> evs[i].effect]

C4_CommitAppliesQueueOnce ==
  lastOp.op = "commit" =>
    /\ lastOp.err = ""
    /\ pendingEffects = <<>>
    /\ AppliedSince(lastOp.logLen) = lastOp.pend
    /\ lastOp.pend = <<>> => domNodes = lastOp.dom
    /\ \A i \in 1..Len(lastOp.pend) :
         LET eff == lastOp.pend[i]
         IN eff.type = PLACEMENT => domNodes[eff.dom].parentNode /= 0

C4_Witness ==
  /\ lastOp.op = "commit"
  /\ Len(lastOp.pend) >= 2
  /\ \E i \in 1..Len(log) : log[i].e = "apply" /\ i <= lastOp.logLen

\* The records reconcile pushed for the pair (o, n) since log position n0.
PushesFor(o, n, n0) ==
  SelectSeq(LogSince(n0), LAMBDA ev : ev.e = "push" /\ ev.oldV = o /\ ev.newV = n)

\* The pairs reconcile was called with since log position n0.
PairsSince(n0) ==
  {<<log[i].oldV, log[i].newV>> :
     i \in {j \in (n0 + 1)..Len(log) : log[j].e = "reconcile"}}

\* The component expansion chain below a VNode, the VNode included.
RECURSIVE Chain(_)
Chain(v) ==
  IF v = 0 THEN {}
  ELSE IF IsComp(v) THEN {v} \cup Chain(vnodes[v].childVNode) ELSE {v}

\* Log position of the first push for a pair, and cleanup-before-push.
PushIndex(o, n, n0) ==
  CHOOSE i \in (n0 + 1)..Len(log) :
    log[i].e = "push" /\ log[i].oldV = o /\ log[i].newV = n

StoredHandles(c) ==
  IF vnodes[c].hooks = 0 THEN {}
  ELSE {hookObjs[h].cleanup : h \in Range(hookArrays[vnodes[c].hooks])} \ {0}

CleanedBefore(c, n0, upTo) ==
  /\ \E i \in (n0 + 1)..upTo : log[i].e = "unmount" /\ log[i].comp = c
  /\ \A hd \in StoredHandles(c) :
       Cardinality({i \in (n0 + 1)..upTo :
                      log[i].e = "cleanup" /\ log[i].handle = hd}) = 1

PositionPushes(o, n, n0) ==
  SelectSeq(LogSince(n0), LAMBDA ev :
    ev.e = "push" /\ ev.oldV \in Chain(o) /\ ev.newV \in Chain(n))

KeysOf(v) == [i \in 1..Len(vnodes[v].children) |-> vnodes[vnodes[v].children[i]].key]

IsKeyedList(v) ==
  /\ v /= 0
  /\ vnodes[v].type = "ul"
  /\ \A i \in 1..Len(KeysOf(v)) : KeysOf(v)[i] /= 0
  /\ UniqueKeys(KeysOf(v))

ChildWithKey(v, k) ==
  vnodes[v].children[CHOOSE i \in 1..Len(KeysOf(v)) : KeysOf(v)[i] = k]

KeyedCommit ==
  /\ lastOp.op = "commit"
  /\ IsKeyedList(lastOp.old)
  /\ IsKeyedList(lastOp.new)
  /\ Range(KeysOf(lastOp.old)) \cup Range(KeysOf(lastOp.new)) /= {}

HostChildren(v) == domNodes[vnodes[v].dom].childNodes

\* C6: a pure reorder of a keyed child list with N >= 2 unique keys leaves,
\* after reconcile + commit, the host children in the new key order, each key
\* on the identical host node it had before; no host node is created, removed
\* or replaced.
PureReorder ==
  /\ KeyedCommit
  /\ Range(KeysOf(lastOp.old)) = Range(KeysOf(lastOp.new))
  /\ Len(KeysOf(lastOp.new)) >= 2

C6_ReorderKeepsHostNodes ==
  PureReorder =>
    /\ HostChildren(lastOp.new) =
         [i \in 1..Len(KeysOf(lastOp.new)) |->
            HostOf(ChildWithKey(lastOp.old, KeysOf(lastOp.new)[i]))]
    /\ \A i \in 1..Len(KeysOf(lastOp.new)) :
         HostOf(vnodes[lastOp.new].children[i]) = HostChildren(lastOp.new)[i]
    /\ vnodes[lastOp.new].dom = vnodes[lastOp.old].dom
    /\ Len(domNodes) = Len(lastOp.dom0)
    /\ \A i \in 1..Len(lastOp.pend) :
         lastOp.pend[i].type \notin {PLACEMENT, DELETION, REPLACE}

C6_Witness ==
  /\ PureReorder
  /\ KeysOf(lastOp.old) /= KeysOf(lastOp.new)
  /\ Len(KeysOf(lastOp.new)) = 3

\* C7: for old and new keyed child lists with sibling-unique keys (insertions,
\* deletions and moves; a key keeps its node type), after reconcile + commit
\* the host parent's children are exactly the host nodes of the new children
\* in new-list order, the host nodes of deleted keys are detached, and a key
\* present in both lists keeps its host node.
C7_KeyedListOrder ==
  KeyedCommit =>
    /\ vnodes[lastOp.new].dom = vnodes[lastOp.old].dom
    /\ HostChildren(lastOp.new) =
         [i \in 1..Len(KeysOf(lastOp.new)) |->
            HostOf(vnodes[lastOp.new].children[i])]
    /\ \A k \in Range(KeysOf(lastOp.old)) :
         IF k \in Range(KeysOf(lastOp.new))
         THEN HostOf(ChildWithKey(lastOp.new, k)) = HostOf(ChildWithKey(lastOp.old, k))
         ELSE domNodes[HostOf(ChildWithKey(lastOp.old, k))].parentNode = 0
    /\ \A i \in 1..Len(KeysOf(lastOp.new)) :
         HostOf(vnodes[lastOp.new].children[i]) /= 0

C7_Witness ==
  /\ KeyedCommit
  /\ Len(KeysOf(lastOp.old)) = 2
  /\ Len(KeysOf(lastOp.new)) = 2
  /\ KeysOf(lastOp.new)[1] \notin Range(KeysOf(lastOp.old))
  /\ KeysOf(lastOp.new)[2] = KeysOf(lastOp.old)[1]

\* ---- state updates and flushes ---------------------------------------------
Quiescent == phase = "idle" /\ microtasks = <<>>

RECURSIVE LeftFold(_, _, _)
LeftFold(v, calls, i) ==
  IF i > Len(calls) THEN v
  ELSE LeftFold(IF calls[i].action.fn = "inc" THEN v + 1 ELSE calls[i].action.v,
                calls, i + 1)

\* The turn consisted of N >= 1 updates through one setter of a mounted instance.
OneSetterTurn ==
  /\ turn.closed
  /\ Quiescent
  /\ turn.calls /= <<>>
  /\ \A i \in 1..Len(turn.calls) :
       /\ turn.calls[i].op = "setState"
       /\ turn.calls[i].closure = turn.calls[1].closure
       /\ turn.calls[i].mounted

InstanceOf(v) == vnodes[v].hooks

EventsSince(n0) == {i \in (n0 + 1)..Len(log) : TRUE}

\* C1: N >= 1 synchronous updates through the setter of one useState slot of a
\* mounted instance cause exactly one flush and exactly one re-invocation of
\* the component function, and the state that render sees is the left fold
\* of the N actions, in call order, over the state before the first update.
C1_BatchedUpdatesFoldOnce ==
  OneSetterTurn =>
    LET c == turn.calls[1].closure
        since == EventsSince(turn.start)
        flushes == {i \in since : log[i].e = "flushUpdates"}
        renders == {i \in since : log[i].e = "render"
                                    /\ InstanceOf(log[i].comp) = InstanceOf(c.comp)}
        reads == {i \in since : log[i].e = "useState" /\ log[i].hook = c.hook}
    IN /\ Cardinality(flushes) = 1
       /\ Cardinality(renders) = 1
       /\ Cardinality(reads) = 1
       /\ \A i \in reads :
            log[i].value = LeftFold(turn.calls[1].pre, turn.calls, 1)
       /\ hookObjs[c.hook].queue = <<>>

C1_Witness ==
  /\ OneSetterTurn
  /\ Len(turn.calls) = 3
  /\ turn.calls[1].action.fn = "set"
  /\ turn.calls[2].action.fn = "inc"
  /\ turn.calls[3].action.fn = "inc"
  /\ hookObjs[turn.calls[1].closure.hook].state = 7

\* C2: a flush triggered by a state update reconciles and commits: when the
\* flush returns the Mutation Queue is empty and every mounted text node shows
\* the value of its virtual node.
MountedTextShown ==
  \A v \in Reach(vnodes, currentVNode) :
    (vnodes[v].type = TEXT_ELEMENT /\ vnodes[v].dom /= 0) =>
       domNodes[vnodes[v].dom].nodeValue = vnodes[v].nodeValue

C2_FlushCommits ==
  lastOp.op = "flush" => pendingEffects = <<>> /\ MountedTextShown

\* ---- effect lifecycle --------------------------------------------------------
MountedInstances ==
  {InstanceOf(v) : v \in {w \in Reach(vnodes, currentVNode) : IsComp(w)}}

HasEffectSlot(a) == \E i \in 1..Len(hookArrays[a]) : hookObjs[hookArrays[a][i]].tag = "effect"

BodyRuns(a) ==
  Cardinality({i \in 1..Len(log) : log[i].e = "effect" /\ InstanceOf(log[i].comp) = a})

CleanupRuns(a) ==
  Cardinality({i \in 1..Len(log) : log[i].e = "cleanup" /\ InstanceOf(log[i].comp) = a})

RootOp == lastOp.op \in {"render", "unmount"} /\ lastOp.err = ""

\* The component occurrences of the previous tree whose instance is gone.
Removed ==
  {c \in Reach(vnodes, lastOp.old) : IsComp(c) /\ InstanceOf(c) \notin MountedInstances}

FirstApply ==
  LET idx == {i \in (lastOp.logLen + 1)..Len(log) : log[i].e = "apply"}
  IN IF idx = {} THEN Len(log) + 1 ELSE CHOOSE i \in idx : \A j \in idx : i <= j

HookCall == lastOp.op \in HookNames

\* C11: every hook (useState, useReducer, useEffect, useRef) called while no
\* current instance is set fails synchronously with the hook-context error,
\* and the call leaves the hook storage and the schedule as they were.
C11_HookOutsideRenderFails ==
  (HookCall /\ lastOp.cc = 0) =>
    /\ lastOp.err = "HookContextError"
    /\ Len(log) = lastOp.logLen
    /\ pendingEffects = lastOp.pend
    /\ currentComponent = 0

C11_Witness ==
  /\ lastOp.op = "useReducer"
  /\ lastOp.cc = 0
  /\ lastOp.err = "HookContextError"
  /\ currentVNode /= 0
  /\ \E i \in 1..Len(log) : log[i].e = "flushUpdates"

\* ---- hook order ------------------------------------------------------------------
\* The component calls made by the last operation, as (position in log).
RendersOfLastOp ==
  {i \in (lastOp.logLen + 1)..Len(log) : log[i].e = "render"}

\* The VNode that carried the same logical occurrence before the render logged
\* at i: the VNode itself for a flush, the old root of the same component type
\* for a root re-render (0 = the occurrence is new).
PreviousOccurrence(i) ==
  IF log[i].at = "flush" THEN log[i].comp
  ELSE IF /\ lastOp.op = "render"
          /\ lastOp.old /= 0
          /\ vnodes[lastOp.old].type \in ComponentFns
          /\ vnodes[lastOp.old].type = vnodes[log[i].comp].type
       THEN lastOp.old
       ELSE 0

\* The occurrence rendered at i had its slot count locked at k by an earlier
\* render, and this render made a different number of hook calls.
CountDiffers(i) ==
  /\ PreviousOccurrence(i) /= 0
  /\ vnodes[PreviousOccurrence(i)].expectedHookCount \notin {-1, hookIndex}

\* C12: the expected slot count of an occurrence is locked after its first
\* render, and every later render of the occurrence, by a flush or by a root
\* re-render, fails with the hook-order error when it makes a different number
\* of hook calls.
C12_HookCountEnforced ==
  \A i \in RendersOfLastOp :
    CountDiffers(i) => lastOp.err = "HookOrderError"

\* The part of C12 the code keeps: renders made by a flush.
C12_FlushPathEnforced ==
  \A i \in RendersOfLastOp :
    (log[i].at = "flush" /\ CountDiffers(i)) => lastOp.err = "HookOrderError"

C12_FlushPathWitness ==
  /\ lastOp.op = "flush"
  /\ lastOp.err = "HookOrderError"
  /\ \E i \in RendersOfLastOp : CountDiffers(i)

\* A render attempt: a root render or a flush that called a component.
RenderAttempt ==
  lastOp.op \in {"render", "flush"} /\ RendersOfLastOp /= {}

\* C13: the current instance is cleared synchronously on every exit path of a
\* render attempt (normal return, component function throwing, hook-order
\* error): afterwards no current instance remains set, so a hook call outside
\* a render still fails with the hook-context error.
C13_ClearedOnEveryExit ==
  /\ RenderAttempt => currentComponent = 0
  /\ HookCall => lastOp.err = "HookContextError"

\* The exit paths on which the code does clear the current instance: normal
\* return and a throwing component function.
C13_ClearedUnlessOrderError ==
  (RenderAttempt /\ lastOp.err /= "HookOrderError") => currentComponent = 0

C13_ThrowingComponentWitness ==
  /\ RenderAttempt
  /\ lastOp.err = "Boom"
  /\ currentComponent = 0

C13_HookAfterOrderError ==
  HookCall /\ lastOp.cc /= 0 /\ lastOp.err = ""

\* ---- passive effects --------------------------------------------------------------
EffectOp == lastOp.op = "effect"

\* No effect body is invoked inside a root render, an unmount or a flush.
NeverSynchronous ==
  \A i \in (lastOp.logLen + 1)..Len(log) : log[i].e = "effect" => EffectOp

\* C14: passive effects run only after the enclosing render and commit have
\* fully returned, for root renders and for state-update flushes: no effect
\* body is invoked synchronously during a render, and when a body runs the
\* Mutation Queue is empty and the host tree shows the render that deferred it.
C14_EffectsAfterCommit ==
  /\ NeverSynchronous
  /\ EffectOp => lastOp.pend = <<>> /\ MountedTextShown

\* The part of C14 the code keeps: effects are never synchronous, and an
\* effect deferred by a root render runs after that render's commit.
C14_AfterRootCommit ==
  /\ NeverSynchronous
  /\ (EffectOp /\ \A i \in 1..Len(log) : log[i].e /= "flushUpdates") =>
        lastOp.pend = <<>> /\ MountedTextShown

C14_AfterRootCommitWitness ==
  /\ EffectOp
  /\ \A i \in 1..Len(log) : log[i].e /= "flushUpdates"
  /\ currentVNode /= 0
  /\ lastOp.pend = <<>>

\* ---- effect re-runs ---------------------------------------------------------------
\* The effect bodies run so far (positions in log); every component of the
\* application has at most one effect slot, so the instance names the slot.
BodyEvents == {i \in 1..Len(log) : log[i].e = "effect"}

SameSlot(i, j) == InstanceOf(log[i].comp) = InstanceOf(log[j].comp)

\* The body run of the same slot that precedes the run at i (0 = none).
PrevBody(i) ==
  LET earlier == {j \in BodyEvents : j < i /\ SameSlot(i, j)}
  IN IF earlier = {} THEN 0 ELSE CHOOSE j \in earlier : \A k \in earlier : k <= j

\* The deferred step that ran the body at i first invoked the cleanup
\* returned by the previous body of the slot.
CleanupFirst(i) ==
  /\ i > 1
  /\ log[i - 1].e = "cleanup"
  /\ log[i - 1].at = "effect"
  /\ log[i - 1].handle = log[PrevBody(i)].handle

\* The last deferred step stored the handle returned by its body.
HandleStored ==
  EffectOp =>
    \E i \in BodyEvents :
      i > lastOp.logLen /\ hookObjs[log[i].hookRef].cleanup = log[i].handle

\* C15: when an effect re-runs, the deferred step first invokes the prior
\* cleanup handle, then the new body, and stores the body's return value as
\* the new cleanup handle: over successive renders with a changing dependency
\* the calls are effect_0, cleanup_0, effect_1, cleanup_1, ..., effect_k.
C15_CleanupThenBody ==
  /\ HandleStored
  /\ \A i \in BodyEvents : PrevBody(i) /= 0 => CleanupFirst(i)

\* The render that deferred the body at i came after the previous body ran.
DeferredAfterPrev(i) ==
  \E k \in (PrevBody(i) + 1)..(i - 1) :
    log[k].e = "useEffect" /\ log[k].hasChanged /\ log[k].hookRef = log[i].hookRef

\* The part of C15 the code keeps: the order holds when each deferred step
\* has run before the next render of the instance.
C15_CleanupThenBodyWhenDrained ==
  /\ HandleStored
  /\ \A i \in BodyEvents :
       (PrevBody(i) /= 0 /\ DeferredAfterPrev(i)) => CleanupFirst(i)

C15_WhenDrainedWitness ==
  \E i \in BodyEvents :
    /\ PrevBody(i) /= 0
    /\ PrevBody(PrevBody(i)) /= 0
    /\ DeferredAfterPrev(i)
    /\ CleanupFirst(i)
    /\ CleanupFirst(PrevBody(i))

\* ---- the dependency rule ----------------------------------------------------------
\* The useEffect calls of re-renders: the slot already held a hook object.
Rechecks == {i \in 1..Len(log) : log[i].e = "useEffect" /\ log[i].oldHook /= 0}

StoredDeps(i) == hookObjs[log[i].oldHook].deps

\* Deferred steps still queued.
QueuedSteps == {k \in 1..Len(microtasks) : microtasks[k].t = "effect"}

\* The useEffect calls made by the last operation that kept the old slot, when
\* no later render of the operation visited the slot again.
KeptByLastOp ==
  {i \in Rechecks : /\ i > lastOp.logLen
                    /\ ~log[i].hasChanged
                    /\ \A j \in Rechecks : j > i => ~SameSlot(i, j)}

\* C16: on each re-render the effect hook re-runs exactly by the dependency
\* rule: an undefined list always re-runs; a list that is and was empty never
\* re-runs; otherwise it re-runs iff the new list differs from the stored one
\* in length or at some position. When it does not re-run, the slot keeps the
\* old hook object and no deferred step is queued for it.
C16_DependencyRule ==
  /\ \A i \in Rechecks :
       LET new == log[i].deps
           old == StoredDeps(i)
       IN /\ ~new.def => log[i].hasChanged
          /\ (new.def /\ ~old.def) => log[i].hasChanged
          /\ (new.def /\ old.def /\ new.v = <<>> /\ old.v = <<>>) => ~log[i].hasChanged
          /\ (new.def /\ old.def) => (log[i].hasChanged <=> new.v /= old.v)
  /\ \A i \in KeptByLastOp :
       /\ hookArrays[InstanceOf(log[i].comp)][log[i].slot] = log[i].oldHook
       /\ hookObjs[log[i].oldHook].deps = log[i].deps
  /\ Cardinality(QueuedSteps) + Cardinality(BodyEvents)
       = Cardinality({i \in 1..Len(log) : log[i].e = "useEffect" /\ log[i].hasChanged})

\* One instance saw a re-render that kept the slot and one that re-ran it
\* because a position of equal-length lists differed.
C16_Witness ==
  \E i, j \in Rechecks :
    /\ SameSlot(i, j)
    /\ ~log[i].hasChanged /\ log[i].deps.def /\ log[i].deps.v /= <<>>
    /\ log[j].hasChanged /\ log[j].deps.def /\ StoredDeps(j).def
    /\ Len(log[j].deps.v) = Len(StoredDeps(j).v)

\* ---- order of deferred effects -----------------------------------------------------
\* The position in log of the useEffect call that deferred the step of hook h.
DeferredAt(h) ==
  CHOOSE k \in 1..Len(log) :
    log[k].e = "useEffect" /\ log[k].hasChanged /\ log[k].hookRef = h

\* C17: deferred effects run in FIFO order of their deferral: of two effects
\* deferred during renders (of the same or of different instances) the one
\* deferred first has its cleanup and body executed first; a step still
\* queued was deferred after every step that has run.
C17_EffectsFifo ==
  /\ \A i, j \in BodyEvents :
       i < j => DeferredAt(log[i].hookRef) < DeferredAt(log[j].hookRef)
  /\ \A i \in BodyEvents, k \in QueuedSteps :
       DeferredAt(log[i].hookRef) < DeferredAt(microtasks[k].hookRef)
  /\ \A k, l \in QueuedSteps :
       k < l => DeferredAt(microtasks[k].hookRef) < DeferredAt(microtasks[l].hookRef)

\* Three steps deferred in one turn by two instances have all run.
C17_Witness ==
  \E i, j, k \in BodyEvents :
    /\ i < j /\ j < k
    /\ ~SameSlot(i, j)
    /\ DeferredAt(log[k].hookRef) < i
    /\ Quiescent

\* ---- updates issued by effect bodies ---------------------------------------------
\* The effect bodies that called a setState closure.
UpdatingBodies == {i \in BodyEvents : log[i].call.comp /= 0}

FlushPending == \E k \in 1..Len(microtasks) : microtasks[k].t = "flushUpdates"

\* The update issued at i waits for a pending flush.
Waiting(i) ==
  /\ FlushPending
  /\ log[i].call.comp \in Range(dirtyComponents)
  /\ log[i].call.action \in Range(hookObjs[log[i].call.hook].queue)

\* A flush that started after i re-rendered the component and read the slot.
Processed(i) ==
  \E f \in (i + 1)..Len(log) :
    /\ log[f].e = "flushUpdates"
    /\ \E r \in (f + 1)..Len(log) :
         /\ log[r].e = "render" /\ log[r].at = "flush"
         /\ log[r].comp = log[i].call.comp
         /\ \E u \in (r + 1)..Len(log) :
              log[u].e = "useState" /\ log[u].hook = log[i].call.hook

\* C18: a state update issued inside an effect body is handled by a flush
\* that starts after the render or flush that deferred the effect has
\* completed: the deferred step itself renders nothing, and from then on the
\* update is either waiting for a pending flush or has been processed by a
\* later flush; it is never lost.
C18_EffectUpdateFlushedLater ==
  /\ EffectOp =>
       \A k \in (lastOp.logLen + 1)..Len(log) :
         log[k].e \notin {"flushUpdates", "render"}
  /\ \A i \in UpdatingBodies :
       /\ DeferredAt(log[i].hookRef) < i
       /\ Waiting(i) \/ Processed(i)
       /\ Quiescent => Processed(i)

\* The render that deferred the step of hook h was made by a flush.
DeferredByFlush(h) ==
  \E r \in 1..(DeferredAt(h) - 1) :
    /\ log[r].e = "render" /\ log[r].at = "flush"
    /\ \A k \in (r + 1)..(DeferredAt(h) - 1) : log[k].e /= "render"

\* An effect deferred by a root render and one deferred by a flush each issued
\* an update, and both updates have been processed.
C18_Witness ==
  \E i, j \in UpdatingBodies :
    /\ ~DeferredByFlush(log[i].hookRef) /\ Processed(i)
    /\ DeferredByFlush(log[j].hookRef) /\ Processed(j)
    /\ Quiescent
    /\ hookObjs[log[i].call.hook].state = 1

\* ---- the scheduler ------------------------------------------------------------------
PendingFlushes == {k \in 1..Len(microtasks) : microtasks[k].t = "flushUpdates"}

\* C19: scheduling an update adds the instance to the dirty set and queues a
\* flush only if none is pending: in every state between operations at most
\* one flush is pending, a flush is pending whenever the dirty set is
\* non-empty, and the instance of the last setState call is in the dirty set.
C19_OneFlushPending ==
  /\ Cardinality(PendingFlushes) <= 1
  /\ dirtyComponents /= <<>> => PendingFlushes /= {}
  /\ flushScheduled <=> PendingFlushes /= {}
  /\ lastOp.op = "setState" =>
       turn.calls[Len(turn.calls)].closure.comp \in Range(dirtyComponents)

\* Two updates made in the turn of the mounting render wait for one pending
\* flush, queued behind the deferred effect.
C19_Witness ==
  /\ lastOp.op = "setState"
  /\ TurnUpdates = 2
  /\ Len(dirtyComponents) = 1
  /\ Cardinality(PendingFlushes) = 1
  /\ QueuedSteps /= {}

\* ---- updates raised during a flush -------------------------------------------------
FlushOp == lastOp.op = "flush"

\* The components the last flush re-rendered, in order.
RenderedByFlush ==
  LET evs == SelectSeq(SubSeq(log, lastOp.logLen + 1, Len(log)),
                       LAMBDA ev : ev.e = "render")
  IN [k \in 1..Len(evs) |-> evs[k].comp]

\* The setState closures whose slot holds actions not yet applied.
Unapplied == {c \in setters : hookObjs[c.hook].queue /= <<>>}

C20_BodyUpdateWitness ==
  /\ FlushOp
  /\ Quiescent
  /\ \E i \in 1..lastOp.logLen :
       /\ log[i].e = "useState" /\ log[i].value = 5
       /\ vnodes[log[i].comp].type = "Bouncer"
  /\ \E i \in (lastOp.logLen + 1)..Len(log) :
       log[i].e = "useState" /\ log[i].value = 6

\* ---- one flush, several dirty instances -----------------------------------------
\* The instances marked dirty when the last flush started.
DirtyInstances == {InstanceOf(lastOp.dirty[k]) : k \in 1..Len(lastOp.dirty)}

\* How often the last operation invoked the component function of instance a.
CallsOf(a) ==
  Cardinality({i \in RendersOfLastOp : InstanceOf(log[i].comp) = a})

\* C21: in one flush every distinct component occurrence affected by the
\* turn's updates has its component function invoked exactly once and its
\* mutations committed, for any set of dirty instances, also when an ancestor
\* instance and one of its descendants are both dirty.
C21_OnceAndCommitted ==
  (FlushOp /\ lastOp.err = "") =>
    /\ \A a \in DirtyInstances : CallsOf(a) = 1
    /\ pendingEffects = <<>>

\* The invocation count alone, leaving the commit aside.
C21_InvokedOnce ==
  (FlushOp /\ lastOp.err = "") => \A a \in DirtyInstances : CallsOf(a) = 1

\* One dirty VNode per flush: its function is invoked exactly once.
C21_SingleDirtyOnce ==
  (FlushOp /\ lastOp.err = "" /\ Len(lastOp.dirty) = 1) =>
    \A a \in DirtyInstances : CallsOf(a) = 1

C21_SingleDirtyWitness ==
  /\ FlushOp
  /\ Len(lastOp.dirty) = 1
  /\ vnodes[lastOp.dirty[1]].type = "Kid"
  /\ TurnUpdates = 2

\* ---- hook slots across re-renders ---------------------------------------------------
\* The Kid occurrences below a committed root, in child order.
KidsOf(root) ==
  IF root = 0 THEN <<>>
  ELSE IF vnodes[root].type = "Parent"
  THEN <<vnodes[vnodes[root].childVNode].children[2]>>
  ELSE IF vnodes[root].type = "ul" THEN vnodes[root].children
  ELSE <<>>

\* Old occurrence o and new occurrence n are the same logical occurrence:
\* the two roots themselves, or Kids with the same key, or unkeyed Kids at
\* the same position.
SameOccurrence(o, n) ==
  /\ lastOp.old /= 0
  /\ vnodes[lastOp.old].type = vnodes[lastOp.new].type
  /\ \/ o = lastOp.old /\ n = lastOp.new /\ IsComp(o)
     \/ \E i \in 1..Len(KidsOf(lastOp.old)), j \in 1..Len(KidsOf(lastOp.new)) :
          /\ o = KidsOf(lastOp.old)[i]
          /\ n = KidsOf(lastOp.new)[j]
          /\ vnodes[o].key = vnodes[n].key
          /\ vnodes[o].key = 0 => i = j

\* The reads of state slots made by the render of occurrence n in the last
\* operation, and the initializer calls it made.
ReadsOf(n) ==
  {i \in (lastOp.logLen + 1)..Len(log) :
     log[i].e \in {"useState", "useReducer"} /\ log[i].comp = n}

InitsOf(n) ==
  {i \in (lastOp.logLen + 1)..Len(log) : log[i].e = "init" /\ log[i].comp = n}

\* C22: the hook slots of a component occurrence persist across every
\* re-render of the same logical occurrence, matched by position for unkeyed
\* and by key for keyed lists: the new occurrence takes over the slot array,
\* its render reads the stored state object and calls no initializer; over
\* the whole run each instance's initializer is invoked exactly once.
C22_SlotsPersist ==
  /\ (lastOp.op = "render" /\ lastOp.err = "") =>
       \A o \in Reach(vnodes, lastOp.old), n \in Reach(vnodes, lastOp.new) :
         SameOccurrence(o, n) =>
           /\ InstanceOf(n) = InstanceOf(o)
           /\ InitsOf(n) = {}
           /\ \A i \in ReadsOf(n) :
                /\ log[i].hook = hookArrays[InstanceOf(o)][1]
                /\ log[i].value = hookObjs[log[i].hook].state
  /\ \A a \in 1..Len(hookArrays) :
       Cardinality({i \in 1..Len(log) :
                      log[i].e = "init" /\ InstanceOf(log[i].comp) = a}) <= 1
  /\ \A v \in 1..Len(vnodes) :
       (vnodes[v].type \in {"Kid", "Tally"} /\ vnodes[v].hooks /= 0) =>
         \E i \in 1..Len(log) :
           log[i].e = "init" /\ InstanceOf(log[i].comp) = InstanceOf(v)

\* A root re-render reversed a keyed list after the Kid with key 1 was set to
\* 5: the state followed the key to the second position.
C22_Witness ==
  /\ lastOp.op = "render"
  /\ lastOp.old /= 0
  /\ vnodes[lastOp.old].type = "ul" /\ vnodes[lastOp.new].type = "ul"
  /\ KeysOf(lastOp.old) = <<1, 2>>
  /\ KeysOf(lastOp.new) = <<2, 1>>
  /\ \E i \in ReadsOf(KidsOf(lastOp.new)[2]) : log[i].value = 5
  /\ \E i \in ReadsOf(KidsOf(lastOp.new)[1]) : log[i].value = 3

\* ---- the ref hook --------------------------------------------------------------------
RefReads == {i \in 1..Len(log) : log[i].e = "useRef"}

\* The box of a slot stays the one its first useRef call made, and a render
\* reads from it what was last written.
BoxKept ==
  /\ \A i, j \in RefReads :
       (InstanceOf(log[i].comp) = InstanceOf(log[j].comp)
          /\ log[i].slot = log[j].slot) => log[i].box = log[j].box
  /\ \A i \in RefReads :
       i > lastOp.logLen => log[i].current = hookObjs[log[i].box].state
  /\ \A a \in 1..Len(hookArrays) : \A k \in 1..Len(hookArrays[a]) :
       hookObjs[hookArrays[a][k]].tag = "ref" =>
         \E i \in RefReads : log[i].box = hookArrays[a][k]
  /\ lastOp.op = "writeRef" => hookObjs[lastOp.old].state = lastOp.new

\* Writing a box changes nothing but the box.
WriteIsSilent ==
  lastOp'.op = "writeRef" /\ ops' /= ops =>
    /\ dirtyComponents' = dirtyComponents
    /\ flushScheduled' = flushScheduled
    /\ microtasks' = microtasks
    /\ log' = log

\* C23: the ref hook creates its box once with the initial value; every later
\* render of the instance returns the identical box with the value last
\* written, and writing the box never adds to the dirty set nor schedules a
\* flush.
C23_RefBoxStable == []BoxKept /\ [][WriteIsSilent]_vars

\* A render after a write returned the first box, holding the written value.
C23_Witness ==
  \E i, j \in RefReads :
    /\ i < j /\ j > lastOp.logLen
    /\ log[i].box = log[j].box
    /\ log[i].current = 7
    /\ log[j].current = 9
    /\ dirtyComponents = <<>> /\ microtasks = <<>>

\* ---- aborted renders ---------------------------------------------------------------
HookErrors == {"HookContextError", "HookOrderError"}

AbortedRender == RenderAttempt /\ lastOp.err \in HookErrors

\* C24: when a render attempt aborts with a hook-context or hook-order error
\* there is no partial commit: the host tree and the root's last-committed
\* virtual tree are as they were before the attempt.
C24_NoPartialCommit ==
  AbortedRender =>
    /\ domNodes = lastOp.dom
    /\ lastOp.op = "render" => currentVNode = lastOp.old

\* A root render aborted after the reconcile had already recorded a mutation.
C24_Witness ==
  /\ AbortedRender
  /\ lastOp.op = "render"
  /\ Len(pendingEffects) > Len(lastOp.pend)
  /\ \E i \in RendersOfLastOp : log[i].at = "reconcile"

C24_FlushWitness ==
  AbortedRender /\ lastOp.op = "flush"

\* ---- a commit that fails -----------------------------------------------------------
CommitFailed == lastOp.op = "commit" /\ lastOp.err /= ""

\* The records the last operation started to apply (the last one is the
\* record that failed).
AppliedCount ==
  Cardinality({i \in (lastOp.logLen + 1)..Len(log) : log[i].e = "apply"})

\* The host tree after the first n records of the queue the commit took.
DomAfter(n) ==
  commitEach([Machine EXCEPT !.dom = lastOp.dom],
             SubSeq(lastOp.pend, 1, n), 1).dom

\* C25: if applying a mutation record fails during a commit, the error
\* propagates, the mutation queue is nevertheless left empty (the remaining
\* records are dropped) and the mutations applied before the failure stay
\* applied.
C25_FailedCommit ==
  CommitFailed =>
    /\ pendingEffects = <<>>
    /\ AppliedCount \in 1..Len(lastOp.pend)
    /\ domNodes = DomAfter(AppliedCount - 1)

\* A commit failed at its third record of four.
C25_Witness ==
  /\ CommitFailed
  /\ AppliedCount > 1
  /\ AppliedCount < Len(lastOp.pend)
  /\ domNodes /= lastOp.dom

\* ---- malformed useEffect arguments ------------------------------------------------
EffectArgErrors == {"EffectCallbackError", "EffectDepsError"}

\* The hook objects of effect slots, and the slots that hold them.
EffectHooksOf(ho) == {h \in 1..Len(ho) : ho[h].tag = "effect"}

EffectSlotsOf(ha, ho) ==
  {<<a, k>> \in (1..Len(ha)) \X (1..4) :
     k <= Len(ha[a]) /\ ha[a][k] \in EffectHooksOf(ho)}

DeferredEffects(tasks) == SelectSeq(tasks, LAMBDA t : t.t = "effect")

\* A call with a malformed argument raises.
BadArgsRaise ==
  \A i \in RendersOfLastOp :
    (vnodes[log[i].comp].type = "Sloppy" /\ vnodes[log[i].comp].props.bad /= "")
      => lastOp.err = IF vnodes[log[i].comp].props.bad = "callback"
                      THEN "EffectCallbackError" ELSE "EffectDepsError"

\* An operation that raised so deferred no effect and left every effect slot.
RaisedBeforeScheduling ==
  lastOp'.err \in EffectArgErrors =>
    /\ DeferredEffects(microtasks') = DeferredEffects(microtasks)
    /\ EffectHooksOf(hookObjs') = EffectHooksOf(hookObjs)
    /\ EffectSlotsOf(hookArrays', hookObjs') = EffectSlotsOf(hookArrays, hookObjs)
    /\ \A s \in EffectSlotsOf(hookArrays, hookObjs) :
         /\ hookArrays'[s[1]][s[2]] = hookArrays[s[1]][s[2]]
         /\ hookObjs'[hookArrays[s[1]][s[2]]] = hookObjs[hookArrays[s[1]][s[2]]]

\* C26: useEffect called with a body that is not a function, or with
\* dependencies that are neither an array nor undefined, raises immediately,
\* before any scheduling: no effect is deferred and no effect slot is created
\* or changed.
C26_BadEffectArgs == []BadArgsRaise /\ [][RaisedBeforeScheduling]_vars

\* A render with malformed dependencies of an instance that already owns an
\* effect slot.
C26_Witness ==
  /\ lastOp.err = "EffectDepsError"
  /\ \E i \in RendersOfLastOp :
       <<vnodes[log[i].comp].hooks, 2>> \in EffectSlotsOf(hookArrays, hookObjs)

C26_CallbackWitness ==
  /\ lastOp.err = "EffectCallbackError"
  /\ EffectHooksOf(hookObjs) = {}

\* ---- the reducer hook ------------------------------------------------------------------
\* The left fold of the tally reducer over a list of actions.
RECURSIVE TallyFold(_, _, _)
TallyFold(v, actions, i) ==
  IF i > Len(actions) THEN v
  ELSE TallyFold(IF actions[i].fn = "inc" THEN v + 1 ELSE 2 * v, actions, i + 1)

ReducerReads == {i \in 1..Len(log) : log[i].e = "useReducer"}

\* The state the hook held before the read logged at i: what the read before
\* it returned, or double(1) for the first read.
StateBefore(i) ==
  LET earlier == {j \in ReducerReads : j < i /\ log[j].hook = log[i].hook}
  IN IF earlier = {} THEN 2
     ELSE log[CHOOSE j \in earlier : \A k \in earlier : k <= j].value

\* The turn consisted of dispatches through the dispatch function of one
\* mounted Tally whose queue was empty when the turn began.
DispatchTurn ==
  /\ OneSetterTurn
  /\ vnodes[turn.calls[1].closure.comp].type = "Tally"
  /\ turn.calls[1].queued = 0

\* C27: the actions dispatched to a reducer hook between two renders are
\* applied on the next render strictly in dispatch order through the reducer;
\* several synchronous dispatches cause exactly one re-render, and the pending
\* queue is empty after the drain.
C27_ReducerDrainsInOrder ==
  /\ \A i \in ReducerReads :
       /\ log[i].value = TallyFold(StateBefore(i), log[i].drained, 1)
       /\ i > lastOp.logLen => hookObjs[log[i].hook].queue = <<>>
  /\ DispatchTurn =>
       LET c == turn.calls[1].closure
           since == EventsSince(turn.start)
           renders == {i \in since : log[i].e = "render"
                                       /\ InstanceOf(log[i].comp) = InstanceOf(c.comp)}
           reads == {i \in since : log[i].e = "useReducer" /\ log[i].hook = c.hook}
       IN /\ Cardinality(renders) = 1
          /\ Cardinality(reads) = 1
          /\ \A i \in reads :
               /\ log[i].drained = [k \in 1..Len(turn.calls) |-> turn.calls[k].action]
               /\ log[i].value = TallyFold(turn.calls[1].pre,
                                           log[i].drained, 1)
          /\ hookObjs[c.hook].queue = <<>>
          /\ hookObjs[c.hook].state = TallyFold(turn.calls[1].pre,
                 [k \in 1..Len(turn.calls) |-> turn.calls[k].action], 1)

\* Two dispatches whose order matters: 2 + 1, then doubled.
C27_Witness ==
  /\ DispatchTurn
  /\ Len(turn.calls) = 2
  /\ turn.calls[1].action.fn = "inc"
  /\ turn.calls[2].action.fn = "set"
  /\ hookObjs[turn.calls[1].closure.hook].state = 6

\* ---- text and prop updates of matched host nodes --------------------------------------
IsHostElement(v) ==
  v /= 0 /\ vnodes[v].type /= TEXT_ELEMENT /\ ~IsComp(v)

\* Two trees of host elements and texts with the same shape, tags, keys and props.
RECURSIVE SameButTexts(_, _)
SameButTexts(o, n) ==
  /\ o /= 0 /\ n /= 0
  /\ ~IsComp(o) /\ ~IsComp(n)
  /\ vnodes[o].type = vnodes[n].type
  /\ vnodes[o].key = vnodes[n].key
  /\ vnodes[o].props = vnodes[n].props
  /\ Len(vnodes[o].children) = Len(vnodes[n].children)
  /\ \A i \in 1..Len(vnodes[o].children) :
       SameButTexts(vnodes[o].children[i], vnodes[n].children[i])

\* The pairs of texts whose literals differ, each with the pair of parents
\* (0 for a text at the root).
RECURSIVE TextDiffs(_, _, _, _)
TextDiffs(o, n, po, pn) ==
  IF vnodes[o].type = TEXT_ELEMENT
  THEN IF vnodes[o].nodeValue /= vnodes[n].nodeValue
       THEN {[o |-> o, n |-> n, po |-> po, pn |-> pn]} ELSE {}
  ELSE UNION {TextDiffs(vnodes[o].children[i], vnodes[n].children[i], o, n) :
                i \in 1..Len(vnodes[o].children)}

OneTextDiffers ==
  /\ SameButTexts(lastOp.old, lastOp.new)
  /\ Cardinality(TextDiffs(lastOp.old, lastOp.new, 0, 0)) = 1

TheTextDiff == CHOOSE d \in TextDiffs(lastOp.old, lastOp.new, 0, 0) : TRUE

MatchedHostPairs ==
  {i \in (lastOp.logLen + 1)..Len(log) :
     /\ log[i].e = "reconcile"
     /\ IsHostElement(log[i].oldV) /\ IsHostElement(log[i].newV)
     /\ vnodes[log[i].oldV].type = vnodes[log[i].newV].type}

UpdatesFor(i) ==
  {j \in (lastOp.logLen + 1)..Len(log) :
     /\ log[j].e = "push" /\ log[j].type = UPDATE
     /\ log[j].oldV = log[i].oldV /\ log[j].newV = log[i].newV}

\* Some prop was added, removed or changed.
PropsDiffer(old, new) ==
  \/ DOMAIN old /= DOMAIN new
  \/ \E k \in DOMAIN old \cap DOMAIN new : old[k] /= new[k]

\* C29: for a matched pair of host elements with the same tag, no Update is
\* recorded when the props are unchanged, and exactly one Update is recorded
\* when some prop was added, removed or changed.
C29_OneUpdatePerChangedProps ==
  lastOp.op = "reconcile" =>
    \A i \in MatchedHostPairs :
      Cardinality(UpdatesFor(i)) =
        IF PropsDiffer(vnodes[log[i].oldV].props, vnodes[log[i].newV].props)
        THEN 1 ELSE 0

\* One reconcile with a prop added, and one with every pair unchanged.
C29_Witness ==
  /\ lastOp.op = "reconcile"
  /\ \E i \in MatchedHostPairs :
       /\ DOMAIN vnodes[log[i].oldV].props = {"id"}
       /\ DOMAIN vnodes[log[i].newV].props = {"id", "title"}
       /\ Cardinality(UpdatesFor(i)) = 1

C29_UnchangedWitness ==
  /\ lastOp.op = "reconcile"
  /\ \E i \in MatchedHostPairs :
       /\ vnodes[log[i].oldV].props = IdProps(1)
       /\ vnodes[log[i].newV].props = IdProps(1)
       /\ UpdatesFor(i) = {}

\* ---- roots -----------------------------------------------------------------------------
RootCalls == 1..Len(rootReg.calls)

\* No root of the container was unmounted between the calls i and j.
StillRegistered(i, j) ==
  \A k \in RootCalls :
    (i < k /\ k < j /\ rootReg.calls[k].container = rootReg.calls[i].container)
      => rootReg.calls[k].op /= "unmount"

SameRootUntilUnmounted ==
  \A i \in RootCalls : \A j \in RootCalls :
    (/\ i < j
     /\ rootReg.calls[i].op = "createRoot"
     /\ rootReg.calls[j].op = "createRoot"
     /\ rootReg.calls[i].container = rootReg.calls[j].container
     /\ StillRegistered(i, j))
      => rootReg.calls[i].root = rootReg.calls[j].root

UnmountEmpties ==
  (lastOp.op = "unmount" /\ rootReg.acted /= 0) =>
    /\ domNodes[rootReg.objs[rootReg.acted].container].childNodes = <<>>
    /\ rootReg.objs[rootReg.acted].currentVNode = 0

\* The host nodes below d.
RECURSIVE Below(_, _)
Below(dom, d) ==
  UNION {{dom[d].childNodes[i]} \cup Below(dom, dom[d].childNodes[i]) :
           i \in 1..Len(dom[d].childNodes)}

\* The container c and everything below it are as the last operation found them.
Untouched(c) ==
  /\ c <= Len(lastOp.dom)
  /\ domNodes[c] = lastOp.dom[c]
  /\ \A x \in Below(lastOp.dom, c) : domNodes[x] = lastOp.dom[x]

OtherContainersUntouched ==
  (lastOp.op \in {"render", "unmount"} /\ rootReg.acted /= 0) =>
    \A c \in Containers \ {rootReg.objs[rootReg.acted].container} : Untouched(c)

\* C30: createRoot returns the same root for the same container until that
\* root is unmounted; root.unmount() leaves the container without children and
\* the root without a previous tree; rendering or unmounting one root never
\* changes the host children of another root's container.
C30_RootsIndependent ==
  /\ SameRootUntilUnmounted
  /\ UnmountEmpties
  /\ OtherContainersUntouched

\* The parts of C30 about one root.
C30_RootPerContainer == SameRootUntilUnmounted /\ UnmountEmpties

C30_RootPerContainerWitness ==
  /\ Len(rootReg.calls) = 3
  /\ rootReg.calls[1].op = "createRoot"
  /\ rootReg.calls[2].op = "createRoot"
  /\ rootReg.calls[1].container = rootReg.calls[2].container
  /\ rootReg.calls[3].op = "unmount"
  /\ lastOp.op = "unmount"
  /\ lastOp.old /= 0
  /\ lastOp.dom[Container].childNodes /= <<>>

\* ---- the expansion a component node keeps ----------------------------------------------
MountedComps == {v \in Reach(vnodes, currentVNode) : IsComp(v)}

\* The invocations of the component function of the instance of v.
InvocationsOf(v) ==
  {i \in 1..Len(log) : log[i].e = "render"
                         /\ InstanceOf(log[i].comp) = InstanceOf(v)}

\* The VNode whose function call was the most recent one of the instance of v;
\* the tree that call returned was stored as the expansion of that VNode.
LastInvoked(v) ==
  log[CHOOSE i \in InvocationsOf(v) : \A j \in InvocationsOf(v) : j <= i].comp

\* C31: at every quiescent point, for every mounted component occurrence of
\* the root's current tree, its last rendered subtree is the virtual tree
\* returned by the most recent invocation of its component function, also when
\* that invocation was triggered through an update closure obtained in an
\* earlier render of the same occurrence.
C31_ExpansionIsLatest ==
  (Quiescent /\ lastOp.err = "") =>
    \A v \in MountedComps :
      vnodes[v].childVNode = vnodes[LastInvoked(v)].childVNode

\* ---- the host identity of a component node ---------------------------------------------
\* The host node found by following the expansion chain of v down to the first
\* node that is not a component.
RECURSIVE ExpansionHost(_)
ExpansionHost(v) ==
  IF v = 0 THEN 0
  ELSE IF IsComp(v) THEN ExpansionHost(vnodes[v].childVNode)
  ELSE vnodes[v].dom

\* C32: a component node's host identity is always the host identity of its
\* expansion: for every mounted component node, also one whose function
\* returns another component, the host reference stored on it is the host node
\* found by following the expansion chain, also after a nested component
\* re-rendered on its own and replaced its root host node.
C32_HostOfExpansion ==
  lastOp.err = "" =>
    \A v \in MountedComps : vnodes[v].dom = ExpansionHost(v)

\* The part the code keeps: a component whose expansion is not a component.
C32_DirectExpansion ==
  lastOp.err = "" =>
    \A v \in MountedComps :
      ~IsComp(vnodes[v].childVNode) => vnodes[v].dom = ExpansionHost(v)

\* ---- unkeyed child lists ---------------------------------------------------------------
Max2(a, b) == IF a > b THEN a ELSE b
Min2(a, b) == IF a < b THEN a ELSE b

\* Both operands of the last operation are <ul> rows.
RowPair ==
  /\ lastOp.old /= 0 /\ lastOp.new /= 0
  /\ vnodes[lastOp.old].type = "ul" /\ vnodes[lastOp.new].type = "ul"

OldRow == vnodes[lastOp.old].children
NewRow == vnodes[lastOp.new].children

\* The reconcile calls and the records pushed since the reconcile began.
CallsSince(n0) ==
  SelectSeq(SubSeq(log, n0 + 1, Len(log)), LAMBDA ev : ev.e = "reconcile")

PushedSince(n0, type) ==
  Len(SelectSeq(SubSeq(log, n0 + 1, Len(log)),
                LAMBDA ev : ev.e = "push" /\ ev.type = type))

PairwiseByIndex ==
  LET calls == CallsSince(lastOp.logLen0)
      longest == Max2(Len(OldRow), Len(NewRow))
  IN /\ Len(calls) = 1 + longest
     /\ \A i \in 1..longest :
          /\ calls[1 + i].oldV = IF i <= Len(OldRow) THEN OldRow[i] ELSE 0
          /\ calls[1 + i].newV = IF i <= Len(NewRow) THEN NewRow[i] ELSE 0
     /\ PushedSince(lastOp.logLen0, PLACEMENT) =
          Max2(Len(NewRow) - Len(OldRow), 0)
     /\ PushedSince(lastOp.logLen0, DELETION) =
          Max2(Len(OldRow) - Len(NewRow), 0)

C33_GrowWitness ==
  /\ RowPair /\ lastOp.op = "commit"
  /\ Len(OldRow) = 1 /\ Len(NewRow) = 3
  /\ vnodes[OldRow[1]].type /= vnodes[NewRow[1]].type
  /\ PushedSince(lastOp.logLen0, PLACEMENT) = 2

\* ---- a reconcile triggered while a commit is being applied ----------------------------
RecordsAppliedSince(n0) ==
  LET evs == SelectSeq(SubSeq(log, n0 + 1, Len(log)), LAMBDA ev : ev.e = "apply")
  IN [i \in 1..Len(evs) |-> evs[i].effect]

PushesBetween(a, b) ==
  Cardinality({i \in (a + 1)..b : log[i].e = "push"})

\* The last operation was a commit during which a callback reconciled.
ReentrantCommit == lastOp.op = "reentrant" /\ lastOp.err = ""

\* The last operation was the commit that followed such a commit.
FollowingCommit ==
  /\ lastOp.op = "commit" /\ lastOp.err = ""
  /\ \E i \in (lastOp.logLen0 + 1)..lastOp.logLen : log[i].e = "reenter"

C34_DuringWitness ==
  /\ ReentrantCommit
  /\ Len(pendingEffects) > 0
  /\ Len(lastOp.pend) > 1

\* ---- records the engine queued itself -------------------------------------------------
\* C35: commit never fails because of the engine's own records: after any
\* sequence of renders, state updates and flushes every Remove and Replace
\* record applied by a commit targets a host node that is a child of the
\* record's parent, so no operation ends with the host's NotFoundError.
C35_RecordsApply == lastOp.err /= "NotFoundError"

\* ---- effects and the end of an instance -----------------------------------------------
UnmountEvents == {i \in 1..Len(log) : log[i].e = "unmount"}

CleanupEvents == {i \in 1..Len(log) : log[i].e = "cleanup"}

\* C36: no effect body of an instance runs after that instance has been
\* unmounted: a body still deferred when the instance is unmounted is not
\* executed.
C36_NoBodyAfterUnmount ==
  \A i \in UnmountEvents :
    \A j \in {k \in BodyEvents : k > i} :
      InstanceOf(log[j].comp) /= InstanceOf(log[i].comp)

\* C37: each cleanup handle returned by an effect invocation is invoked at
\* most once over the whole life of the instance.
C37_CleanupAtMostOnce ==
  \A i \in CleanupEvents :
    \A j \in {k \in CleanupEvents : k > i} : log[j].handle /= log[i].handle

\* ---- queued updates are processed ------------------------------------------------------
\* Hook object h is a state or reducer slot of a mounted instance and its
\* queue holds an action.
PendingUpdate(h) ==
  /\ h <= Len(hookObjs)
  /\ hookObjs[h].queue /= <<>>
  /\ \E a \in MountedInstances :
       \E k \in 1..Len(hookArrays[a]) : hookArrays[a][k] = h

\* C38: no enqueued update is lost: whenever a state or reducer slot of a
\* mounted instance has a non-empty pending queue, the instance is eventually
\* re-rendered and the queue drained, also when the re-render of another
\* instance earlier in the same flush throws. The engine acts only through
\* queued microtasks, so once the queue is empty it takes no further step by
\* itself: in such a state no slot of a mounted instance may still hold an
\* action.
C38_NoStrandedUpdate ==
  (microtasks = <<>> /\ phase = "idle") =>
    \A h \in 1..MaxHookObjs : ~PendingUpdate(h)

\* The same property as a leads-to, for SpecAbortLive.
UpdatesEventuallyDrained ==
  \A h \in 1..MaxHookObjs : PendingUpdate(h) ~> ~PendingUpdate(h)

\* A flush ended with an error and left an action queued with no flush pending.
C38_LostUpdate ==
  /\ lastOp.op = "flush" /\ lastOp.err /= ""
  /\ microtasks = <<>>
  /\ \E h \in 1..MaxHookObjs : PendingUpdate(h)

\* ---- records of an aborted render ------------------------------------------------------
\* The last root render threw after its reconcile had queued records.
AbortedWithRecords ==
  /\ lastOp.op = "render" /\ lastOp.err /= ""
  /\ Len(pendingEffects) > Len(lastOp.pend)

AbortedRecords ==
  {pendingEffects[k] : k \in (Len(lastOp.pend) + 1)..Len(pendingEffects)}

\* C39: mutation records appended by a render attempt that then aborted with
\* an error are never applied: the commit of the next successful render
\* applies none of them.
C39_AbortedRecordsDropped ==
  [][AbortedWithRecords =>
       \A i \in (Len(log) + 1)..Len(log') :
         log'[i].e = "apply" => log'[i].effect \notin AbortedRecords]_vars

\* ---- setters of an unmounted instance --------------------------------------------------
\* Instance a was unmounted: its cleanups were run by unmountComponent at i.
UnmountedBefore(a, n) ==
  \E i \in UnmountEvents : i <= n /\ InstanceOf(log[i].comp) = a

\* C40: an update dispatched through the setter of an instance that has
\* already been unmounted never invokes its component function again, appends
\* no mutation record and defers no effect.
C40_UnmountedStaysSilent ==
  \A j \in 1..Len(log) :
    (log[j].e = "render" /\ log[j].at = "flush")
      => ~UnmountedBefore(InstanceOf(log[j].comp), j)

====
